---- MODULE Spec2Model ----
(***************************************************************************)
(* aifbin-recall: the persistent index (EngramDB over SQLite), the         *)
(* Indexer (parse, replace-by-source, batch insert) and the HTTP routes    *)
(* that mutate the store, as a state machine.                              *)
(*                                                                         *)
(* The store is the committed content of the database file: the            *)
(* collections table, the chunks table (with SQLite's implicit rowid) and  *)
(* the external-content FTS5 index chunks_fts that the triggers maintain.  *)
(* better-sqlite3 runs every statement outside db.transaction() in         *)
(* autocommit mode and enforces foreign keys (its build sets               *)
(* SQLITE_DEFAULT_FOREIGN_KEYS=1).                                         *)
(***************************************************************************)
EXTENDS Integers, Sequences, FiniteSets, Bags, TLC

(***************************************************************************)
(* Bounds of the model                                                     *)
(***************************************************************************)
\* crypto.randomUUID() calls a behaviour may make
MaxUuid == 3
\* largest rowid the chunks table may hand out
MaxRowid == 3

(***************************************************************************)
(* The values the model draws its inputs from                              *)
(***************************************************************************)
\* the .aif-bin files on disk: /d1/f1.aif-bin and /d1/d2/f2.aif-bin
Files == {"f1", "f2"}
\* the directories an index request may name
Dirs == {"d1", "d2"}
\* collection names
CollNames == {"c1", "c2"}
\* the ids crypto.randomUUID() returns, in the order it returns them
UuidPool == <<"u1", "u2", "u3", "u4", "u5", "u6", "u7", "u8">>
\* SQL NULL / a JavaScript null
Null == "NULL"
\* an embedding component a float32 cannot hold exactly: 2^24 + 1
BigComponent == 16777216 + 1

\* one chunk record of a file: the id and embedding of its metadata, its text
Rec(id, text, emb) == [id |-> id, text |-> text, embedding |-> emb]

\* what a file on disk can hold
BadMagicFile == [kind |-> "badMagic", chunks |-> << >>]
TooSmallFile == [kind |-> "tooSmall", chunks |-> << >>]
GoodFile(recs) == [kind |-> "ok", chunks |-> recs]
\* a file of 64 bytes or more whose contentChunksOffset points past its end
BadOffsetFile == [kind |-> "badOffset", chunks |-> << >>]
\* a file whose content-chunks section declares count records and holds
\* recs before the file ends
StreamFile(count, recs) == [kind |-> "ok", chunks |-> recs, count |-> count]
\* a chunk record whose header and metadata are whole and whose declared
\* dataLength points past the end of the file
CutRec(id, text, emb) ==
  [id |-> id, text |-> text, embedding |-> emb, cut |-> TRUE]

Contents ==
  { BadMagicFile,
    GoodFile(<< Rec("a", "t1", <<1>>) >>),
    GoodFile(<< Rec("a", "t1", <<1>>), Rec("b", "t2", <<1, BigComponent>>) >>),
    GoodFile(<< Rec("", "t1", <<1>>) >>),
    GoodFile(<< Rec("b", "t2", << >>) >>) }

(***************************************************************************)
(* State                                                                   *)
(***************************************************************************)
VARIABLES
  disk,         \* file path -> content of the file
  collections,  \* rows of table collections
  chunks,       \* rows of table chunks
  fts,          \* bag of the entries of chunks_fts
  uuidCtr,      \* number of crypto.randomUUID() calls so far
  last,         \* the last operation and what it returned or logged
  ingest,       \* a re-ingestion between its two commits (concurrent view)
  obs,          \* what a reader on another connection last read
  pipelineCache,  \* models whose pipeline is in the module's cache
  embedders,      \* the Embedder instances of the process
  embedder,       \* the server's lazily made Embedder ("" while unset)
  loads,          \* the pipeline() calls started so far, in order
  calls           \* init(), embed() and text searches awaiting a load

embedderVars == <<pipelineCache, embedders, embedder, loads, calls>>

vars == <<disk, collections, chunks, fts, uuidCtr, last, ingest, obs,
          pipelineCache, embedders, embedder, loads, calls>>

(***************************************************************************)
(* Helpers                                                                 *)
(***************************************************************************)
Min(S) == CHOOSE x \in S : \A y \in S : x <= y

Max(S) == CHOOSE x \in S : \A y \in S : y <= x

Range(s) == { s[i] : i \in 1..Len(s) }

\* new Float32Array([x])[0] for a non-negative integer below 2^25:
\* exact up to 2^24, then rounded to the nearest even integer, ties to the
\* even mantissa
Float32(x) ==
  IF x <= 16777216 THEN x
  ELSE IF x % 2 = 0 THEN x
  ELSE IF ((x - 1) \div 2) % 2 = 0 THEN x - 1 ELSE x + 1

\* Buffer.from(new Float32Array(embedding).buffer), kept as the float32
\* values it holds (4 bytes each)
EmbeddingBuffer(embedding) ==
  [i \in 1..Len(embedding) |-> Float32(embedding[i])]

\* the n-th id crypto.randomUUID() returns
RandomUUID(n) == UuidPool[n]

(***************************************************************************)
(* EngramDB: the SQLite schema and the statements run against it.          *)
(* A store state st is [collections, chunks, fts].                         *)
(***************************************************************************)
Store(cs, ch, ft) == [collections |-> cs, chunks |-> ch, fts |-> ft]

FtsEntry(row) == [rowid |-> row.rowid, text |-> row.text]

\* trigger chunks_ai: INSERT INTO chunks_fts(rowid, text)
chunks_ai(ft, row) == ft (+) SetToBag({FtsEntry(row)})

\* chunks_ad without its body: a deleted row keeps its index entry
chunks_ad_none(ft, row) == ft

\* trigger chunks_ad: the FTS5 'delete' command for (OLD.rowid, OLD.text)
chunks_ad(ft, row) == ft (-) SetToBag({FtsEntry(row)})

RECURSIVE FtsDeleteAll(_, _)
FtsDeleteAll(ft, rows) ==
  IF rows = {} THEN ft
  ELSE LET r == CHOOSE x \in rows : TRUE
       IN  FtsDeleteAll(chunks_ad(ft, r), rows \ {r})

\* the rowid SQLite gives a row inserted without one: one more than the
\* largest rowid in the table
NextRowid(ch) == IF ch = {} THEN 1 ELSE Max({ r.rowid : r \in ch }) + 1

\* SELECT * FROM collections WHERE name = ?
getCollection(cs, name) == { c \in cs : c.name = name }

\* SELECT * FROM collections WHERE id = ?
getCollectionById(cs, id) == { c \in cs : c.id = id }

\* INSERT INTO collections (id, name, description): id from
\* crypto.randomUUID(), the counts take their DEFAULT 0.  name is UNIQUE.
createCollection(st, name, uuid) ==
  IF getCollection(st.collections, name) # {}
  THEN [ok |-> FALSE, st |-> st]
  ELSE [ok |-> TRUE,
        st |-> [st EXCEPT !.collections =
                  @ \cup {[id |-> uuid, name |-> name,
                           file_count |-> 0, chunk_count |-> 0]}]]

\* DELETE FROM chunks WHERE <rows>: every deleted row fires chunks_ad
DeleteRows(st, rows) ==
  [st EXCEPT !.chunks = @ \ rows, !.fts = FtsDeleteAll(@, rows)]

\* a foreign key that is declared but not enforced: nothing cascades
CascadeRows_off(ch, gone) == {}

\* FOREIGN KEY (collection_id) REFERENCES collections(id) ON DELETE CASCADE:
\* the chunk rows a DELETE of collection rows `gone` takes with it
CascadeRows(ch, gone) ==
  { r \in ch : r.collection_id \in { c.id : c \in gone } }

\* DELETE FROM collections WHERE name = ?  (one statement, one commit);
\* returns result.changes > 0
deleteCollection(st, name) ==
  LET gone == getCollection(st.collections, name)
      st1  == DeleteRows(st, CascadeRows(st.chunks, gone))
  IN  [ret |-> gone # {},
       st  |-> [st1 EXCEPT !.collections = @ \ gone]]

\* the row one INSERT INTO chunks statement builds from its parameters
ChunkRow(ch, chunk) ==
  [rowid         |-> NextRowid(ch),
   id            |-> chunk.id,
   collection_id |-> chunk.collectionId,
   source_file   |-> chunk.sourceFile,
   chunk_index   |-> chunk.chunkIndex,
   text          |-> chunk.text,
   embedding     |-> EmbeddingBuffer(chunk.embedding),
   metadata      |-> chunk.metadata]

\* the constraints of table chunks one INSERT must pass: NOT NULL columns,
\* PRIMARY KEY id, FOREIGN KEY collection_id
InsertAllowed(st, chunk) ==
  /\ chunk.collectionId # Null
  /\ chunk.sourceFile # Null
  /\ chunk.text # Null
  /\ \A r \in st.chunks : r.id # chunk.id
  /\ getCollectionById(st.collections, chunk.collectionId) # {}

\* insert.run(...) of one chunk: the statement either inserts the row and
\* fires chunks_ai, or throws and changes nothing
InsertRow(st, chunk) ==
  IF InsertAllowed(st, chunk)
  THEN LET row == ChunkRow(st.chunks, chunk)
       IN  [ok |-> TRUE,
            st |-> [st EXCEPT !.chunks = @ \cup {row},
                              !.fts = chunks_ai(@, row)]]
  ELSE [ok |-> FALSE, st |-> st]

\* EngramDB.insertChunk: one autocommitted INSERT
insertChunk(st, chunk) == InsertRow(st, chunk)

\* the loop of insertMany: insert.run for each chunk in order, stopping at
\* the first one that throws
RECURSIVE InsertLoop(_, _)
InsertLoop(st, batch) ==
  IF batch = << >> THEN [ok |-> TRUE, st |-> st]
  ELSE LET r == InsertRow(st, Head(batch))
       IN  IF r.ok THEN InsertLoop(r.st, Tail(batch))
           ELSE [ok |-> FALSE, st |-> st]

\* the loop run outside a transaction: what was inserted before the throw
\* stays
Transaction_norollback(st, batch) == InsertLoop(st, batch)

\* db.transaction(fn)(batch): BEGIN, fn, COMMIT; ROLLBACK and rethrow when
\* fn throws
Transaction(st, batch) ==
  LET r == InsertLoop(st, batch)
  IN  IF r.ok THEN r ELSE [ok |-> FALSE, st |-> st]

\* EngramDB.insertChunks
insertChunks(st, batch) == Transaction(st, batch)

\* SELECT * FROM chunks WHERE id = ?
getChunk(ch, id) == { r \in ch : r.id = id }

\* SELECT * FROM chunks WHERE source_file = ? (ORDER BY chunk_index)
getChunksBySourceFile(ch, sourceFile) == { r \in ch : r.source_file = sourceFile }

\* SELECT * FROM chunks WHERE collection_id = ?
getChunksByCollection(ch, collectionId) ==
  { r \in ch : r.collection_id = collectionId }

\* rowToChunk: the MemoryChunk read back from a row; the embedding is the
\* blob reinterpreted as float32 values
rowToChunk(row) ==
  [id |-> row.id, collectionId |-> row.collection_id,
   sourceFile |-> row.source_file, chunkIndex |-> row.chunk_index,
   text |-> row.text,
   embedding |-> [i \in 1..Len(row.embedding) |-> row.embedding[i]],
   metadata |-> row.metadata]

\* getAllChunksWithEmbeddings(collectionId?): SELECT * FROM chunks
\* [WHERE collection_id = ?]; collectionId = "" stands for undefined
getAllChunksWithEmbeddings(ch, collectionId) ==
  { rowToChunk(r) :
      r \in { q \in ch : collectionId = "" \/ q.collection_id = collectionId } }

\* deleteChunksBySource with the DELETE left out: re-ingestion that only adds
deleteChunksBySource_keep(st, sourceFile) == [ret |-> 0, st |-> st]

\* DELETE FROM chunks WHERE source_file = ?; returns result.changes
deleteChunksBySource(st, sourceFile) ==
  LET rows == getChunksBySourceFile(st.chunks, sourceFile)
  IN  [ret |-> Cardinality(rows), st |-> DeleteRows(st, rows)]

\* DELETE FROM chunks WHERE id = ?; returns result.changes > 0
deleteChunk(st, id) ==
  LET rows == getChunk(st.chunks, id)
  IN  [ret |-> rows # {}, st |-> DeleteRows(st, rows)]

\* the UPDATE without its WHERE id = ?: every collection row gets the counts
updateCollectionStats_all(st, collectionId) ==
  LET rows == getChunksByCollection(st.chunks, collectionId)
  IN  [st EXCEPT !.collections =
         { [c EXCEPT !.file_count =
                       Cardinality({ r.source_file : r \in rows }),
                     !.chunk_count = Cardinality(rows)] : c \in @ }]

\* UPDATE collections SET file_count = COUNT(DISTINCT source_file),
\* chunk_count = COUNT(*) ... WHERE id = ?
updateCollectionStats(st, collectionId) ==
  LET rows == getChunksByCollection(st.chunks, collectionId)
  IN  [st EXCEPT !.collections =
         { IF c.id = collectionId
           THEN [c EXCEPT !.file_count =
                            Cardinality({ r.source_file : r \in rows }),
                          !.chunk_count = Cardinality(rows)]
           ELSE c : c \in @ }]

(***************************************************************************)
(* The parser and the Indexer                                              *)
(***************************************************************************)
\* number of chunk records among the first n of recs whose metadata has no
\* id: each costs one crypto.randomUUID()
RECURSIVE Idless(_, _)
Idless(recs, n) ==
  IF n = 0 THEN 0
  ELSE Idless(recs, n - 1) + (IF recs[n].id = "" THEN 1 ELSE 0)

\* header.embeddingDim: the length of the first non-empty embedding, else 0
RECURSIVE EmbeddingDim(_)
EmbeddingDim(recs) ==
  IF recs = << >> THEN 0
  ELSE IF Len(Head(recs).embedding) > 0 THEN Len(Head(recs).embedding)
  ELSE EmbeddingDim(Tail(recs))

\* view.getUint32(chunksStart): the chunk count the section declares
ChunkCount(file) ==
  IF "count" \in DOMAIN file THEN file.count ELSE Len(file.chunks)

\* buffer.subarray(offset, offset + dataLength).toString() when the file
\* ends before offset + dataLength: the part of the text that is there
Clamped(text) == "t0"

\* the records the chunk loop decodes before it ends or breaks: reading the
\* header of a record the file does not hold throws inside the try and
\* breaks the loop; the data of a record cut short is clamped by subarray
Decoded(file) ==
  [i \in 1..(IF ChunkCount(file) < Len(file.chunks) THEN ChunkCount(file)
                                                    ELSE Len(file.chunks)) |->
     [id |-> file.chunks[i].id,
      text |-> IF "cut" \in DOMAIN file.chunks[i]
               THEN Clamped(file.chunks[i].text) ELSE file.chunks[i].text,
      embedding |-> file.chunks[i].embedding]]

\* the Error parseAifBinFile throws for a file it does not read
ParseError(file) ==
  IF file.kind = "tooSmall" THEN "File too small"
  ELSE IF file.kind = "badMagic" THEN "bad magic bytes"
  ELSE "RangeError"

\* parseAifBinFile on a file holding `file`, after ctr randomUUID() calls:
\* throws on a short file, a bad magic or a section offset past the end,
\* else returns the header's chunkCount and the chunks decoded, each with
\* id = (chunkMeta.id || crypto.randomUUID())
parseAifBinFile(file, ctr) ==
  IF file.kind # "ok"
  THEN [ok |-> FALSE, chunks |-> << >>, embeddingDim |-> 0, used |-> 0,
        err |-> ParseError(file), chunkCount |-> 0]
  ELSE [ok |-> TRUE,
        chunks |->
          [i \in 1..Len(Decoded(file)) |->
             [id |-> IF Decoded(file)[i].id # "" THEN Decoded(file)[i].id
                     ELSE RandomUUID(ctr + Idless(Decoded(file), i)),
              text |-> Decoded(file)[i].text,
              embedding |-> Decoded(file)[i].embedding]],
        embeddingDim |-> EmbeddingDim(Decoded(file)),
        used |-> Idless(Decoded(file), Len(Decoded(file))),
        err |-> "none", chunkCount |-> ChunkCount(file)]

\* aifbin.chunks.filter(c => c.embedding.length > 0)
RECURSIVE chunksWithEmbeddings(_)
chunksWithEmbeddings(cs) ==
  IF cs = << >> THEN << >>
  ELSE IF Len(Head(cs).embedding) > 0
       THEN <<Head(cs)>> \o chunksWithEmbeddings(Tail(cs))
       ELSE chunksWithEmbeddings(Tail(cs))

\* the map of indexFile without its index argument: every chunk at index 0
MemoryChunks_flat(cs, filePath, collectionId, dim) ==
  [i \in 1..Len(cs) |->
     [id |-> cs[i].id, collectionId |-> collectionId,
      sourceFile |-> filePath, chunkIndex |-> 0,
      text |-> cs[i].text, embedding |-> cs[i].embedding,
      metadata |-> [embeddingDim |-> dim]]]

\* the MemoryChunk records indexFile builds: chunkIndex is the 0-based
\* position in the filtered list
MemoryChunks(cs, filePath, collectionId, dim) ==
  [i \in 1..Len(cs) |->
     [id |-> cs[i].id, collectionId |-> collectionId,
      sourceFile |-> filePath, chunkIndex |-> i - 1,
      text |-> cs[i].text, embedding |-> cs[i].embedding,
      metadata |-> [embeddingDim |-> dim]]]

\* an indexFile that deletes the chunks of the file before it parses it
indexFile_deletefirst(st, ctr, filePath, file, collectionId) ==
  LET aifbin == parseAifBinFile(file, ctr)
      withEmb == chunksWithEmbeddings(aifbin.chunks)
      del == deleteChunksBySource(st, filePath)
      mcs == MemoryChunks(withEmb, filePath, collectionId, aifbin.embeddingDim)
      ins == insertChunks(del.st, mcs)
  IN  IF ~aifbin.ok
      THEN [status |-> "error", err |-> "parse", count |-> 0, st |-> del.st,
            ctr |-> ctr, arg |-> << >>]
      ELSE IF withEmb = << >>
      THEN [status |-> "skipped", err |-> "none", count |-> 0, st |-> del.st,
            ctr |-> ctr + aifbin.used, arg |-> << >>]
      ELSE IF ~ins.ok
      THEN [status |-> "error", err |-> "store", count |-> 0, st |-> ins.st,
            ctr |-> ctr + aifbin.used, arg |-> mcs]
      ELSE [status |-> "ok", err |-> "none", count |-> Len(mcs), st |-> ins.st,
            ctr |-> ctr + aifbin.used, arg |-> mcs]

\* Indexer.indexFile(filePath, collectionId) on store st with the file
\* holding `file`: what it returns or throws, the store it leaves, the
\* randomUUID() calls it made
indexFile(st, ctr, filePath, file, collectionId) ==
  LET aifbin == parseAifBinFile(file, ctr)
      withEmb == chunksWithEmbeddings(aifbin.chunks)
      del == deleteChunksBySource(st, filePath)
      mcs == MemoryChunks(withEmb, filePath, collectionId, aifbin.embeddingDim)
      ins == insertChunks(del.st, mcs)
  IN  IF ~aifbin.ok
      THEN [status |-> "error", err |-> "parse", count |-> 0, st |-> st,
            ctr |-> ctr, arg |-> << >>]
      ELSE IF withEmb = << >>
      THEN [status |-> "skipped", err |-> "none", count |-> 0, st |-> st,
            ctr |-> ctr + aifbin.used, arg |-> << >>]
      ELSE IF ~ins.ok
      THEN [status |-> "error", err |-> "store", count |-> 0, st |-> ins.st,
            ctr |-> ctr + aifbin.used, arg |-> mcs]
      ELSE [status |-> "ok", err |-> "none", count |-> Len(mcs), st |-> ins.st,
            ctr |-> ctr + aifbin.used, arg |-> mcs]

\* the directory tree: /d1 holds f1 and the directory d2, /d1/d2 holds f2
DirEntries(dir) == IF dir = "d1" THEN <<"f1", "d2">> ELSE <<"f2">>

\* findAifBinFiles(dir, recursive): scan() over the entries in readdir order
RECURSIVE scan(_, _)
scan(entries, recursive) ==
  IF entries = << >> THEN << >>
  ELSE LET e == Head(entries)
           here == IF e \in Dirs
                   THEN IF recursive THEN scan(DirEntries(e), recursive)
                        ELSE << >>
                   ELSE <<e>>
       IN  here \o scan(Tail(entries), recursive)

findAifBinFiles(dir, recursive) == scan(DirEntries(dir), recursive)

\* the for loop of indexDirectory over files: acc is
\* [st, ctr, totalChunks, successFiles, log]; a throw of indexFile is caught
\* and logged ("Failed"), the loop goes on.  r is what the one call of
\* indexFile on the file gave.
RECURSIVE IndexLoop(_, _, _, _)
IndexLoop(acc, files, dsk, collectionId) ==
  IF files = << >> THEN acc
  ELSE LET f == Head(files)
           entry(r) == [file |-> f,
                        outcome |-> IF r.status = "ok" THEN "Indexed"
                                    ELSE IF r.status = "skipped" THEN "Skipped"
                                    ELSE "Failed",
                        err |-> r.err, count |-> r.count]
           step(r) == [st |-> r.st, ctr |-> r.ctr,
                       totalChunks |-> acc.totalChunks + r.count,
                       successFiles |-> acc.successFiles
                                        + (IF r.count > 0 THEN 1 ELSE 0),
                       log |-> Append(acc.log, entry(r))]
       IN  CHOOSE out \in
             { IndexLoop(step(r), Tail(files), dsk, collectionId) :
                 r \in { indexFile(acc.st, acc.ctr, f, dsk[f], collectionId) } } :
             TRUE

\* the result of the earlier indexDirectory: files is the number of files
\* found
IndexResult_found(acc, files) ==
  [files |-> Len(files), chunks |-> acc.totalChunks]

\* what indexDirectory returns: { files: successFiles, chunks: totalChunks }
IndexResult(acc, files) ==
  [files |-> acc.successFiles, chunks |-> acc.totalChunks]

\* Indexer.indexDirectory(dir, {collection, recursive})
indexDirectory(st, ctr, dsk, dir, collection, recursive) ==
  LET existing == getCollection(st.collections, collection)
      made == createCollection(st, collection, RandomUUID(ctr + 1))
      st0 == IF existing # {} THEN st ELSE made.st
      ctr0 == IF existing # {} THEN ctr ELSE ctr + 1
      col == CHOOSE c \in st0.collections : c.name = collection
      files == findAifBinFiles(dir, recursive)
      start == [st |-> st0, ctr |-> ctr0, totalChunks |-> 0,
                successFiles |-> 0, log |-> << >>]
  IN  CHOOSE out \in
        { [st |-> updateCollectionStats(acc.st, col.id), ctr |-> acc.ctr,
           ret |-> IndexResult(acc, files), log |-> acc.log, coll |-> col.id] :
            acc \in { IndexLoop(start, files, dsk, col.id) } } :
        TRUE

(***************************************************************************)
(* The search engine.  Scores are exact rationals [n, d] with d > 0 in     *)
(* lowest terms; the vectors and weights the model uses give values a      *)
(* double computes without a rounding that would change a comparison.      *)
(***************************************************************************)
RECURSIVE GCD(_, _)
GCD(a, b) == IF b = 0 THEN a ELSE GCD(b, a % b)

Abs(x) == IF x < 0 THEN 0 - x ELSE x

\* the number n / d, d > 0
R(n, d) ==
  LET g == GCD(Abs(n), d)
  IN  [n |-> IF n < 0 THEN 0 - (Abs(n) \div g) ELSE n \div g, d |-> d \div g]

Zero == R(0, 1)
One == R(1, 1)

RAdd(a, b) == R(a.n * b.d + b.n * a.d, a.d * b.d)
RSub(a, b) == R(a.n * b.d - b.n * a.d, a.d * b.d)
RMul(a, b) == R(a.n * b.n, a.d * b.d)
\* a >= b
RGe(a, b) == a.n * b.d >= b.n * a.d

\* the loop of cosineSimilarity: sum of a[i] * b[i]
RECURSIVE Dot(_, _)
Dot(a, b) ==
  IF a = << >> THEN 0 ELSE Head(a) * Head(b) + Dot(Tail(a), Tail(b))

\* Math.sqrt of a perfect square
Sqrt(n) == CHOOSE k \in 0..n : k * k = n

\* a similarity that gives 0 for vectors of different lengths
cosineSimilarity_lenient(a, b) ==
  IF Len(a) # Len(b)
  THEN [ok |-> TRUE, v |-> Zero]
  ELSE LET magnitude == Sqrt(Dot(a, a)) * Sqrt(Dot(b, b))
       IN  [ok |-> TRUE,
            v |-> IF magnitude = 0 THEN Zero ELSE R(Dot(a, b), magnitude)]

\* cosineSimilarity(a, b): throws when the lengths differ, 0 when a norm is 0
cosineSimilarity(a, b) ==
  IF Len(a) # Len(b)
  THEN [ok |-> FALSE, v |-> Zero]
  ELSE LET magnitude == Sqrt(Dot(a, a)) * Sqrt(Dot(b, b))
       IN  [ok |-> TRUE,
            v |-> IF magnitude = 0 THEN Zero ELSE R(Dot(a, b), magnitude)]

\* the tokens the index holds for a text
Tokens(text) ==
  IF text = "t1" THEN <<"x">>
  ELSE IF text = "t2" THEN <<"x", "y">>
  ELSE IF text = "t3" THEN <<"x", "y", "y">>
  ELSE << >>

\* bm25(chunks_fts) of a row for a one-token phrase: negative, lower for a
\* text in which the token is more frequent
Bm25(text, query) ==
  LET toks == Tokens(text)
      tf == Cardinality({ i \in 1..Len(toks) : toks[i] = query })
  IN  0 - ((6 * tf) \div Len(toks))

\* chunks_fts MATCH '"query"'
Matches(text, query) == \E i \in 1..Len(Tokens(text)) : Tokens(text)[i] = query

\* rows as a list in rowid order, the order of a SELECT without ORDER BY
RECURSIVE RowsInOrder(_)
RowsInOrder(rows) ==
  IF rows = {} THEN << >>
  ELSE LET m == CHOOSE r \in rows : \A q \in rows : r.rowid <= q.rowid
       IN  <<m>> \o RowsInOrder(rows \ {m})

\* the SELECT without its WHERE collection_id = ?
AllChunksList_any(ch, collectionId) ==
  LET rows == RowsInOrder(ch)
  IN  [i \in 1..Len(rows) |-> rowToChunk(rows[i])]

\* getAllChunksWithEmbeddings(collectionId?) as the list stmt.all() returns
AllChunksList(ch, collectionId) ==
  LET rows == RowsInOrder({ q \in ch : collectionId = ""
                                       \/ q.collection_id = collectionId })
  IN  [i \in 1..Len(rows) |-> rowToChunk(rows[i])]

\* ORDER BY score: hits by ascending score, rowid order among equal scores
RECURSIVE HitsInOrder(_)
HitsInOrder(hits) ==
  IF hits = {} THEN << >>
  ELSE LET m == CHOOSE h \in hits :
                  \A g \in hits :
                    h.score < g.score
                    \/ (h.score = g.score /\ h.rowid <= g.rowid)
       IN  <<[id |-> m.id, score |-> m.score]>> \o HitsInOrder(hits \ {m})

\* keywordSearch(query, collectionId?, limit): chunks_fts JOIN chunks ON
\* rowid WHERE MATCH [AND collection_id = ?] ORDER BY score LIMIT ?
keywordSearch(st, query, collectionId, limit) ==
  LET hits == { [id |-> r.id, rowid |-> r.rowid, score |-> Bm25(e.text, query)] :
                  <<e, r>> \in
                    { p \in BagToSet(st.fts) \X st.chunks :
                        /\ p[1].rowid = p[2].rowid
                        /\ Matches(p[1].text, query)
                        /\ (collectionId = ""
                            \/ p[2].collection_id = collectionId) } }
      all == HitsInOrder(hits)
  IN  SubSeq(all, 1, IF limit < Len(all) THEN limit ELSE Len(all))

\* the normalization without the inversion: (score - min) / range
normalizeBM25Scores_raw(scores) ==
  LET idx == 1..Len(scores)
      minScore == CHOOSE m \in { scores[i].score : i \in idx } :
                    \A i \in idx : m <= scores[i].score
      maxScore == CHOOSE m \in { scores[i].score : i \in idx } :
                    \A i \in idx : m >= scores[i].score
      range == IF maxScore - minScore = 0 THEN 1 ELSE maxScore - minScore
      lastOf(id) == Max({ i \in idx : scores[i].id = id })
  IN  [id \in { scores[i].id : i \in idx } |->
         R(scores[lastOf(id)].score - minScore, range)]

\* normalizeBM25Scores(scores): the Map id -> 1 - (score - min) / range, as
\* a function on the ids; a later entry of the same id replaces an earlier
normalizeBM25Scores(scores) ==
  LET idx == 1..Len(scores)
      minScore == CHOOSE m \in { scores[i].score : i \in idx } :
                    \A i \in idx : m <= scores[i].score
      maxScore == CHOOSE m \in { scores[i].score : i \in idx } :
                    \A i \in idx : m >= scores[i].score
      range == IF maxScore - minScore = 0 THEN 1 ELSE maxScore - minScore
      lastOf(id) == Max({ i \in idx : scores[i].id = id })
  IN  [id \in { scores[i].id : i \in idx } |->
         RSub(One, R(scores[lastOf(id)].score - minScore, range))]

\* Array.prototype.sort((a, b) => b.score - a.score): descending by score,
\* stable; SortDesc inserts each element after those with a score >= its own
InsertDesc(sorted, x) ==
  LET k == Cardinality({ i \in 1..Len(sorted) : RGe(sorted[i].score, x.score) })
  IN  SubSeq(sorted, 1, k) \o <<x>> \o SubSeq(sorted, k + 1, Len(sorted))

RECURSIVE SortDesc(_)
SortDesc(s) ==
  IF s = << >> THEN << >>
  ELSE CHOOSE out \in
         { InsertDesc(front, s[Len(s)]) :
             front \in { SortDesc(SubSeq(s, 1, Len(s) - 1)) } } : TRUE

\* no slice: the whole list
Slice_all(s, limit) == s

\* s.slice(0, limit) for limit >= 0
Slice(s, limit) == SubSeq(s, 1, IF limit < Len(s) THEN limit ELSE Len(s))

\* what a search call gives: the list it returns or the Error it throws
Returned(results) == [status |-> "ok", err |-> "none", results |-> results]
Thrown(err) == [status |-> "error", err |-> err, results |-> << >>]

\* a name that is not found searched as if no collection had been given
CollectionId_fallback(st, collection) ==
  LET col == getCollection(st.collections, collection)
  IN  IF collection = "" \/ col = {} THEN [found |-> TRUE, id |-> ""]
      ELSE [found |-> TRUE, id |-> (CHOOSE c \in col : TRUE).id]

\* "if (collection) { col = getCollection(collection); if (!col) throw ...;
\* collectionId = col.id }": id = "" stands for undefined
CollectionId(st, collection) ==
  LET col == getCollection(st.collections, collection)
  IN  IF collection = "" THEN [found |-> TRUE, id |-> ""]
      ELSE IF col = {} THEN [found |-> FALSE, id |-> ""]
      ELSE [found |-> TRUE, id |-> (CHOOSE c \in col : TRUE).id]

\* SearchEngine.search(queryEmbedding, options); options.collection = ""
\* stands for no collection given
search(st, queryEmbedding, options) ==
  LET col == CollectionId(st, options.collection)
      collectionId == col.id
      chunkList == AllChunksList(st.chunks, collectionId)
      scored == [i \in 1..Len(chunkList) |->
                   [chunk |-> chunkList[i],
                    score |-> cosineSimilarity(queryEmbedding,
                                               chunkList[i].embedding).v]]
      keep(e) == RGe(e.score, options.threshold)
      vectorScores == SortDesc(SelectSeq(scored, keep))
      top == Slice(vectorScores, options.limit)
  IN  IF ~col.found
      THEN Thrown("Collection not found")
      ELSE IF chunkList = << >> THEN Returned(<< >>)
      ELSE IF \E i \in 1..Len(chunkList) :
                ~cosineSimilarity(queryEmbedding, chunkList[i].embedding).ok
      THEN Thrown("Vector dimension mismatch")
      ELSE Returned([i \in 1..Len(top) |->
                       [chunk |-> top[i].chunk, score |-> top[i].score,
                        vectorScore |-> top[i].score]])

\* a missing entry counted as a full score
GetOrZero_one(map, id) == IF id \in DOMAIN map THEN map[id] ELSE One

\* map.get(id) || 0 on a Map held as a function
GetOrZero(map, id) == IF id \in DOMAIN map THEN map[id] ELSE Zero

\* the ids of a list without repetition, in the order of first appearance
\* (the iteration order of a Set)
RECURSIVE SetOrder(_)
SetOrder(ids) ==
  IF ids = << >> THEN << >>
  ELSE LET front == SubSeq(ids, 1, Len(ids) - 1)
           x == ids[Len(ids)]
       IN  IF x \in Range(front) THEN SetOrder(front)
           ELSE Append(SetOrder(front), x)

\* the two scores added without their weights
Fuse_sum(hybridWeight, vectorScore, keywordScore) ==
  RAdd(vectorScore, keywordScore)

\* hybridWeight * vectorScore + (1 - hybridWeight) * keywordScore
Fuse(hybridWeight, vectorScore, keywordScore) ==
  RAdd(RMul(hybridWeight, vectorScore),
       RMul(RSub(One, hybridWeight), keywordScore))

\* the body of hybridSearch over the committed state st its first two
\* statements read (getCollection, getAllChunksWithEmbeddings) and the
\* committed state kw its third statement reads (keywordSearch); each
\* statement is its own autocommitted read
hybridSearchOn(st, kw, queryEmbedding, queryText, options) ==
  LET col == CollectionId(st, options.collection)
      collectionId == col.id
      chunkList == AllChunksList(st.chunks, collectionId)
      ids == { chunkList[i].id : i \in 1..Len(chunkList) }
      chunkMap == [id \in ids |->
                     chunkList[Max({ i \in 1..Len(chunkList) :
                                       chunkList[i].id = id })]]
      vectorScoreMap ==
        [id \in ids |-> cosineSimilarity(queryEmbedding,
                                         chunkMap[id].embedding).v]
      keywordResults == keywordSearch(kw, queryText, collectionId,
                                      options.limit * 3)
      keywordScoreMap == normalizeBM25Scores(keywordResults)
      allIds == SetOrder([i \in 1..Len(chunkList) |-> chunkList[i].id]
                         \o [i \in 1..Len(keywordResults) |->
                               keywordResults[i].id])
      known(id) == id \in ids
      fused == [i \in 1..Len(SelectSeq(allIds, known)) |->
                  LET id == SelectSeq(allIds, known)[i]
                      vectorScore == GetOrZero(vectorScoreMap, id)
                      keywordScore == GetOrZero(keywordScoreMap, id)
                  IN  [chunk |-> chunkMap[id],
                       score |-> Fuse(options.hybridWeight, vectorScore,
                                      keywordScore),
                       vectorScore |-> vectorScore,
                       keywordScore |-> keywordScore]]
      keep(e) == RGe(e.score, options.threshold)
  IN  IF ~col.found
      THEN Thrown("Collection not found")
      ELSE IF chunkList = << >> THEN Returned(<< >>)
      ELSE IF \E i \in 1..Len(chunkList) :
                ~cosineSimilarity(queryEmbedding, chunkList[i].embedding).ok
      THEN Thrown("Vector dimension mismatch")
      ELSE Returned(Slice(SortDesc(SelectSeq(fused, keep)), options.limit))

\* SearchEngine.hybridSearch(queryEmbedding, queryText, options) with no
\* commit of another connection between its statements
hybridSearch(st, queryEmbedding, queryText, options) ==
  hybridSearchOn(st, st, queryEmbedding, queryText, options)

(***************************************************************************)
(* The state machine.  Every action is one call of a public operation or   *)
(* one HTTP request, run to completion (the handlers are synchronous).     *)
(***************************************************************************)
Cur == Store(collections, chunks, fts)

Commit(st) ==
  /\ collections' = st.collections
  /\ chunks' = st.chunks
  /\ fts' = st.fts

\* the model's bounds on the counters
Bounded(st, ctr) ==
  /\ ctr <= MaxUuid
  /\ \A r \in st.chunks : r.rowid <= MaxRowid

\* the last ingestion, insert or delete call: its outcome (what it returned,
\* its HTTP status, "error" when it threw) and the counts it returned or
\* logged (for deleteCollection the chunk rows the cascade took, for
\* insertChunks the rows inserted before a throw); Quiet after any other
\* operation
Last(op, status, nfiles, nchunks, nfailed) ==
  [op |-> op, status |-> status, files |-> nfiles, chunks |-> nchunks,
   failed |-> nfailed]

Quiet == Last("-", "-", 0, 0, 0)

Idle == [pc |-> "idle", file |-> "-", coll |-> "-", pending |-> << >>,
         prior |-> {}]

NoObs == [file |-> "-", rows |-> {}, prior |-> {}, pending |-> << >>,
          during |-> FALSE]

Init ==
  /\ disk = [f \in Files |->
               IF f = "f1" THEN GoodFile(<< Rec("a", "t1", <<1>>) >>)
               ELSE BadMagicFile]
  /\ collections = {}
  /\ chunks = {}
  /\ fts = EmptyBag
  /\ uuidCtr = 0
  /\ last = Quiet
  /\ ingest = Idle
  /\ obs = NoObs
  /\ pipelineCache = {}
  /\ embedders = [e \in {} |-> 0]
  /\ embedder = ""
  /\ loads = << >>
  /\ calls = [c \in {} |-> 0]

\* the user replaces a file on disk
WriteFile(f, c) ==
  /\ disk[f] # c
  /\ disk' = [disk EXCEPT ![f] = c]
  /\ last' = Quiet
  /\ UNCHANGED <<collections, chunks, fts, uuidCtr, ingest, obs, embedderVars>>

\* POST /collections/:name
PostCollection(name) ==
  LET existing == getCollection(collections, name)
      made == createCollection(Cur, name, RandomUUID(uuidCtr + 1))
  IN  /\ IF existing # {}
         THEN UNCHANGED <<collections, chunks, fts, uuidCtr>>
         ELSE /\ uuidCtr < MaxUuid
              /\ Commit(made.st)
              /\ uuidCtr' = uuidCtr + 1
      /\ last' = Quiet
      /\ UNCHANGED <<disk, ingest, obs, embedderVars>>

\* DELETE /collections/:name, which is EngramDB.deleteCollection(name)
DeleteCollection(name) ==
  LET r == deleteCollection(Cur, name)
  IN  /\ Commit(r.st)
      /\ last' = Last("deleteCollection", IF r.ret THEN "200" ELSE "404", 0,
                      Cardinality(chunks) - Cardinality(r.st.chunks), 0)
      /\ UNCHANGED <<disk, uuidCtr, ingest, obs, embedderVars>>

\* DELETE /chunks/:id
HttpDeleteChunk(id) ==
  LET found == getChunk(chunks, id)
      r == deleteChunk(Cur, id)
  IN  /\ IF found = {}
         THEN /\ UNCHANGED <<collections, chunks, fts>>
              /\ last' = Quiet
         ELSE \E chunk \in found :
                /\ Commit(IF r.ret
                          THEN updateCollectionStats(r.st, chunk.collection_id)
                          ELSE r.st)
                /\ last' = Quiet
      /\ UNCHANGED <<disk, uuidCtr, ingest, obs, embedderVars>>

\* DELETE /files/*
HttpDeleteFile(f) ==
  LET found == getChunksBySourceFile(chunks, f)
      first == { r \in found : \A q \in found : r.chunk_index <= q.chunk_index }
      del == deleteChunksBySource(Cur, f)
  IN  /\ IF found = {}
         THEN /\ UNCHANGED <<collections, chunks, fts>>
              /\ last' = Quiet
         ELSE \E chunk0 \in first :
                /\ Commit(updateCollectionStats(del.st, chunk0.collection_id))
                /\ last' = Quiet
      /\ UNCHANGED <<disk, uuidCtr, ingest, obs, embedderVars>>

\* Indexer.removeFile(filePath)
RemoveFile(f) ==
  LET del == deleteChunksBySource(Cur, f)
  IN  /\ Commit(del.st)
      /\ last' = Quiet
      /\ UNCHANGED <<disk, uuidCtr, ingest, obs, embedderVars>>

\* Indexer.indexFile(filePath, collectionId)
IndexFile(f, cid) ==
  \E r \in { indexFile(Cur, uuidCtr, f, disk[f], cid) } :
    /\ Bounded(r.st, r.ctr)
    /\ Commit(r.st)
    /\ uuidCtr' = r.ctr
    /\ last' = Last("indexFile", r.status, 0, r.count, 0)
    /\ UNCHANGED <<disk, ingest, obs, embedderVars>>

\* the "Failed" lines indexDirectory logged
NFailed(log) ==
  Cardinality({ i \in 1..Len(log) : log[i].outcome = "Failed" })

\* POST /index, recall_index, the index command: Indexer.indexDirectory
IndexDirectory(dir, name, recursive) ==
  /\ getCollection(collections, name) = {} => uuidCtr < MaxUuid
  /\ \E r \in { indexDirectory(Cur, uuidCtr, disk, dir, name, recursive) } :
       /\ Bounded(r.st, r.ctr)
       /\ Commit(r.st)
       /\ uuidCtr' = r.ctr
       /\ last' = Last("indexDirectory", "ok", r.ret.files, r.ret.chunks,
                       NFailed(r.log))
  /\ UNCHANGED <<disk, ingest, obs, embedderVars>>

(***************************************************************************)
(* indexFile seen from another connection on the same database file: its   *)
(* DELETE is one autocommitted statement, its batch insert one             *)
(* transaction; a reader (WAL mode never blocks it) may run between them.  *)
(***************************************************************************)
\* indexFile up to and including deleteChunksBySource: parse, filter,
\* return 0 or throw, else commit the DELETE
IndexFileBegin(f, cid) ==
  LET aifbin == parseAifBinFile(disk[f], uuidCtr)
      withEmb == chunksWithEmbeddings(aifbin.chunks)
      del == deleteChunksBySource(Cur, f)
      mcs == MemoryChunks(withEmb, f, cid, aifbin.embeddingDim)
  IN  /\ ingest.pc = "idle"
      /\ uuidCtr + aifbin.used <= MaxUuid
      /\ uuidCtr' = uuidCtr + aifbin.used
      /\ IF ~aifbin.ok \/ withEmb = << >>
         THEN /\ last' = Last("indexFile",
                              IF aifbin.ok THEN "skipped" ELSE "error", 0, 0, 0)
              /\ UNCHANGED <<collections, chunks, fts, ingest>>
         ELSE /\ Commit(del.st)
              /\ ingest' = [pc |-> "deleted", file |-> f, coll |-> cid,
                            pending |-> mcs,
                            prior |-> getChunksBySourceFile(chunks, f)]
              /\ last' = Quiet
      /\ UNCHANGED <<disk, obs, embedderVars>>

\* the rest of indexFile: this.db.insertChunks(memoryChunks)
IndexFileInsert ==
  LET ins == insertChunks(Cur, ingest.pending)
  IN  /\ ingest.pc = "deleted"
      /\ Bounded(ins.st, uuidCtr)
      /\ Commit(ins.st)
      /\ last' = Last("indexFile", IF ins.ok THEN "ok" ELSE "error", 0,
                      IF ins.ok THEN Len(ingest.pending) ELSE 0, 0)
      /\ ingest' = Idle
      /\ UNCHANGED <<disk, uuidCtr, obs, embedderVars>>

\* a query of another connection for the chunks of f (GET /files/..., a
\* search of another process): one SELECT over the committed state
Read(f) ==
  LET during == ingest.pc = "deleted" /\ ingest.file = f
  IN  /\ obs' = [file |-> f,
                 rows |-> getChunksBySourceFile(chunks, f),
                 prior |-> IF during THEN ingest.prior ELSE {},
                 pending |-> IF during THEN ingest.pending ELSE << >>,
                 during |-> during]
      /\ obs' # obs
      /\ UNCHANGED <<disk, collections, chunks, fts, uuidCtr, last, ingest, embedderVars>>

(***************************************************************************)
(* The store API called directly                                           *)
(***************************************************************************)
\* the chunks a caller of the store API passes
ApiChunk(id, cid, f, idx, text, emb) ==
  [id |-> id, collectionId |-> cid, sourceFile |-> f, chunkIndex |-> idx,
   text |-> text, embedding |-> emb, metadata |-> [embeddingDim |-> Len(emb)]]

\* the collection ids a caller may pass: those that exist and one that
\* does not
CollIdsNow == { c.id : c \in collections } \cup {"nope"}

ApiChunksFor(cid) ==
  { ApiChunk("a", cid, "f1", 0, "t1", <<1>>),
    ApiChunk("b", cid, "f1", 1, "t2", <<1, BigComponent>>),
    ApiChunk("c", cid, "f2", 0, "t2", << >>),
    ApiChunk("b", cid, "f2", 0, Null, <<1>>) }

ApiChunks == UNION { ApiChunksFor(cid) : cid \in CollIdsNow }

\* the batches a caller passes: a good one, one with the same id twice,
\* one whose second row has no text, one whose second row names an unknown
\* collection
ApiBatchesFor(cid) ==
  { << ApiChunk("a", cid, "f1", 0, "t1", <<1>>),
       ApiChunk("b", cid, "f1", 1, "t2", <<1, BigComponent>>) >>,
    << ApiChunk("a", cid, "f1", 0, "t1", <<1>>),
       ApiChunk("a", cid, "f1", 0, "t1", <<1>>) >>,
    << ApiChunk("c", cid, "f2", 0, "t2", << >>),
       ApiChunk("b", cid, "f2", 0, Null, <<1>>) >>,
    << ApiChunk("b", cid, "f1", 1, "t2", <<1, BigComponent>>),
       ApiChunk("a", "nope", "f1", 0, "t1", <<1>>) >> }

ApiBatches == UNION { ApiBatchesFor(cid) : cid \in CollIdsNow }

\* EngramDB.createCollection(name)
DbCreateCollection(name) ==
  LET made == createCollection(Cur, name, RandomUUID(uuidCtr + 1))
  IN  /\ uuidCtr < MaxUuid
      /\ Commit(made.st)
      /\ uuidCtr' = uuidCtr + 1
      /\ last' = Quiet
      /\ UNCHANGED <<disk, ingest, obs, embedderVars>>

\* EngramDB.insertChunk(chunk)
DbInsertChunk(chunk) ==
  LET r == insertChunk(Cur, chunk)
  IN  /\ Bounded(r.st, uuidCtr)
      /\ Commit(r.st)
      /\ last' = Last("insertChunk", IF r.ok THEN "ok" ELSE "error", 0, 0, 0)
      /\ UNCHANGED <<disk, uuidCtr, ingest, obs, embedderVars>>

\* EngramDB.insertChunks(batch)
DbInsertChunks(batch) ==
  LET r == insertChunks(Cur, batch)
      attempt == InsertLoop(Cur, batch)
  IN  /\ Bounded(r.st, uuidCtr)
      /\ Commit(r.st)
      /\ last' = Last("insertChunks", IF r.ok THEN "ok" ELSE "error", 0,
                      IF r.ok THEN 0
                      ELSE Cardinality(attempt.st.chunks) - Cardinality(chunks),
                      0)
      /\ UNCHANGED <<disk, uuidCtr, ingest, obs, embedderVars>>

\* EngramDB.deleteChunk(id)
DbDeleteChunk(id) ==
  LET r == deleteChunk(Cur, id)
  IN  /\ Commit(r.st)
      /\ last' = Last("deleteChunk", IF r.ret THEN "true" ELSE "false",
                      0, 0, 0)
      /\ UNCHANGED <<disk, uuidCtr, ingest, obs, embedderVars>>

\* EngramDB.deleteChunksBySource(sourceFile)
DbDeleteChunksBySource(f) ==
  LET del == deleteChunksBySource(Cur, f)
  IN  /\ Commit(del.st)
      /\ last' = Quiet
      /\ UNCHANGED <<disk, uuidCtr, ingest, obs, embedderVars>>

\* EngramDB.updateCollectionStats(collectionId)
DbUpdateCollectionStats(cid) ==
  /\ Commit(updateCollectionStats(Cur, cid))
  /\ last' = Last("updateCollectionStats", "ok", 0, 0, 0)
  /\ UNCHANGED <<disk, uuidCtr, ingest, obs, embedderVars>>

(***************************************************************************)
(* Searches.  A client sends one request at a time: obs holds the answer   *)
(* to its last request until it has taken it.                              *)
(***************************************************************************)
\* the chunks the searched store is filled with: in collection c1 texts of
\* one, two and three tokens with embeddings of norm 1, 1 and 5, in
\* collection c2 a chunk with an embedding of another length
SearchChunksFor(c) ==
  IF c.name = "c1"
  THEN { ApiChunk("a", c.id, "f1", 0, "t1", <<1, 0>>),
         ApiChunk("b", c.id, "f1", 1, "t2", <<0, 1>>),
         ApiChunk("c", c.id, "f2", 0, "t3", <<3, 4>>) }
  ELSE { ApiChunk("d", c.id, "f2", 1, "t1", <<1>>) }

SearchChunks == UNION { SearchChunksFor(c) : c \in collections }

\* DEFAULT_CONFIG.search.hybridWeight
DefaultHybridWeight == R(7, 10)

\* the raw hit lists normalizeBM25Scores is applied to: up to three hits of
\* distinct ids
RawScores == { 0 - 6, 0 - 3, 0, 2 }
HitLists ==
  { << >> }
  \cup { <<[id |-> "a", score |-> x]>> : x \in RawScores }
  \cup { <<[id |-> "a", score |-> x], [id |-> "b", score |-> y]>> :
           x \in RawScores, y \in RawScores }
  \cup { <<[id |-> "a", score |-> x], [id |-> "b", score |-> y],
           [id |-> "c", score |-> z]>> :
           x \in RawScores, y \in RawScores, z \in RawScores }

\* the request bodies of POST /search and the arguments of recall_search
PostBodies ==
  [embedding : {<<1, 0>>}, query : {"x"}, limit : {0, 1}]
  \cup [embedding : {<<1, 0>>}, query : {"x"}]
  \cup [embedding : {<<1, 0>>}, limit : {0, 1}]
  \cup [embedding : {<<1, 0>>}, query : {"x"}, collection : {"c1"},
         limit : {0, 1}, hybridWeight : {One}]

ToolArgs ==
  [embedding : {<<1, 0>>}, query : {"x"}, limit : {0, 1}]
  \cup [embedding : {<<1, 0>>}, query : {"x"}, collection : {"c1"}]

\* the arguments of a search
QueryEmbeddings == { <<1, 0>>, <<3, 4>>, <<1>> }
QueryTexts == { "x", "y" }
Limits == { 0, 1, 3 }
Thresholds == { Zero, R(1, 2), R(2, 1) }
Weights == { Zero, R(1, 2), One }

SearchOptions ==
  [collection : {""} \cup CollNames, limit : Limits, threshold : Thresholds,
   hybridWeight : Weights]

\* SearchEngine.search(queryEmbedding, options)
Search(q, options) ==
  /\ obs = NoObs
  /\ obs' = [op |-> "search", query |-> q, text |-> "", options |-> options,
             out |-> search(Cur, q, options)]
  /\ UNCHANGED <<disk, collections, chunks, fts, uuidCtr, last, ingest, embedderVars>>

\* SearchEngine.hybridSearch(queryEmbedding, queryText, options)
HybridSearch(q, text, options) ==
  /\ obs = NoObs
  /\ obs' = [op |-> "hybridSearch", query |-> q, text |-> text,
             options |-> options,
             out |-> hybridSearch(Cur, q, text, options)]
  /\ UNCHANGED <<disk, collections, chunks, fts, uuidCtr, last, ingest, embedderVars>>

\* a call of parseAifBinFile(f); the answer is kept with the call before it
ParseFile(f) ==
  \E r \in { parseAifBinFile(disk[f], uuidCtr) } :
    /\ uuidCtr + r.used <= MaxUuid
    /\ uuidCtr' = uuidCtr + r.used
    /\ obs' = [op |-> "parseAifBinFile", content |-> disk[f], out |-> r,
               prev |-> IF "op" \in DOMAIN obs /\ obs.op = "parseAifBinFile"
                        THEN <<[content |-> obs.content, out |-> obs.out]>>
                        ELSE << >>]
    /\ UNCHANGED <<disk, collections, chunks, fts, last, ingest, embedderVars>>

\* hybridSearch up to its second statement: the collection is resolved and
\* getAllChunksWithEmbeddings has read the committed state
HybridLoad(q, text, options) ==
  /\ obs = NoObs
  /\ obs' = [op |-> "hybridSearch:load", query |-> q, text |-> text,
             options |-> options, first |-> Cur]
  /\ UNCHANGED <<disk, collections, chunks, fts, uuidCtr, last, ingest, embedderVars>>

\* the rest of hybridSearch: keywordSearch reads the state committed by
\* now, and the scores are fused
HybridFinish ==
  /\ "op" \in DOMAIN obs /\ obs.op = "hybridSearch:load"
  /\ obs' = [op |-> "hybridSearch:done", query |-> obs.query,
             text |-> obs.text, options |-> obs.options,
             first |-> obs.first, second |-> Cur,
             out |-> hybridSearchOn(obs.first, Cur, obs.query, obs.text,
                                    obs.options)]
  /\ UNCHANGED <<disk, collections, chunks, fts, uuidCtr, last, ingest, embedderVars>>

\* the connection of another process may commit now: no query is running,
\* or one is between its two reads and nothing was committed since its
\* first (one commit during a query)
WriterMayCommit ==
  \/ obs = NoObs
  \/ "op" \in DOMAIN obs /\ obs.op = "hybridSearch:load" /\ obs.first = Cur

\* normalizeBM25Scores applied to a list of raw hits
NormalizeScores(scores) ==
  /\ obs = NoObs
  /\ obs' = [op |-> "normalizeBM25Scores", scores |-> scores,
             out |-> normalizeBM25Scores(scores)]
  /\ UNCHANGED <<disk, collections, chunks, fts, uuidCtr, last, ingest, embedderVars>>

\* body[name], or dflt when the request does not have the field
Field(body, name, dflt) == IF name \in DOMAIN body THEN body[name] ELSE dflt

\* "limit || 10" of the two surfaces
LimitOr10(body) ==
  IF "limit" \in DOMAIN body /\ body.limit # 0 THEN body.limit ELSE 10

\* POST /search with an embedding in the body: 200 with the results, 500
\* with the error
HttpPostSearch(body) ==
  LET queryText == Field(body, "query", "")
      options == [collection |-> Field(body, "collection", ""),
                  limit |-> LimitOr10(body),
                  threshold |-> Zero,
                  hybridWeight |-> Field(body, "hybridWeight", DefaultHybridWeight)]
      hybrid == queryText # "" /\ ~RGe(options.hybridWeight, One)
  IN  /\ obs = NoObs
      /\ \E out \in { IF hybrid
                       THEN hybridSearch(Cur, body.embedding, queryText, options)
                       ELSE search(Cur, body.embedding, options) } :
           obs' = [op |-> "POST /search", body |-> body, options |-> options,
                   out |-> out,
                   code |-> IF out.status = "ok" THEN 200 ELSE 500]
      /\ UNCHANGED <<disk, collections, chunks, fts, uuidCtr, last, ingest, embedderVars>>

\* EngramDB.listFiles(collectionId?): the source files with their chunk
\* counts, as a set (the ORDER BY is left out); "" stands for undefined
listFiles(ch, collectionId) ==
  LET rows == { r \in ch : collectionId = ""
                            \/ r.collection_id = collectionId }
  IN  { [sourceFile |-> f,
         chunkCount |-> Cardinality({ r \in rows : r.source_file = f })] :
          f \in { r.source_file : r \in rows } }

\* GET /files?collection=name: db.listFiles(collectionObj?.id)
HttpGetFiles(name) ==
  LET col == getCollection(collections, name)
      id == IF col = {} THEN "" ELSE (CHOOSE c \in col : TRUE).id
  IN  /\ obs = NoObs
      /\ obs' = [op |-> "GET /files", collection |-> name, code |-> 200,
                 files |-> listFiles(chunks, id)]
      /\ UNCHANGED <<disk, collections, chunks, fts, uuidCtr, last, ingest, embedderVars>>

\* tool recall_search with an embedding in the arguments
McpRecallSearch(args) ==
  LET options == [collection |-> Field(args, "collection", ""),
                  limit |-> LimitOr10(args),
                  threshold |-> Zero,
                  hybridWeight |-> DefaultHybridWeight]
  IN  /\ obs = NoObs
      /\ obs' = [op |-> "recall_search", body |-> args, options |-> options,
                 out |-> hybridSearch(Cur, args.embedding, args.query, options)]
      /\ UNCHANGED <<disk, collections, chunks, fts, uuidCtr, last, ingest, embedderVars>>

\* the client has taken the answer
TakeResponse ==
  /\ obs # NoObs
  /\ obs' = NoObs
  /\ UNCHANGED <<disk, collections, chunks, fts, uuidCtr, last, ingest, embedderVars>>

(***************************************************************************)
(* The embedder: the module's pipeline cache, Embedder instances and the   *)
(* server's lazily made instance. Node runs one callback at a time, so an  *)
(* action is the code between two suspensions on a model load.             *)
(***************************************************************************)
\* keys of EMBEDDING_MODELS the model uses
Models == {"minilm", "mpnet"}
\* Embedder instances the callers of the library make, and the server's
EmbedderIds == {"e1", "e2"}
ServerEmbedderId == "srv"
\* calls that may be awaiting at one time
CallIds == {1, 2}

\* this.loading: no promise yet, or the promise of load number `load`
NoPromise == [state |-> "none", load |-> 0]

\* what the pipeline of a model answers for a text: a unit vector whose
\* length depends on the model
Infer(model, text) ==
  IF model = "minilm"
  THEN (IF text = "x" THEN <<1, 0>> ELSE <<0, 1>>)
  ELSE (IF text = "x" THEN <<1, 0, 0>> ELSE <<0, 1, 0>>)

\* the error a failed load rejects with
LoadError(n) == [name |-> "LoadError", load |-> n]

\* an init() that starts a new loading promise after a failed load
InitStarts_retry(inst) ==
  inst.embedder = "" /\ inst.loading.state \in {"none", "rejected"}

\* init() starts the loading promise: neither this.embedder nor
\* this.loading is set
InitStarts(inst) == inst.embedder = "" /\ inst.loading.state = "none"

\* init() on instance e up to its await: where it starts the promise,
\* getEmbedder either finds the model in pipelineCache (the promise
\* resolves before any other callback runs) or calls pipeline()
init(embs, e) ==
  LET inst == embs[e]
  IN  IF ~InitStarts(inst)
      THEN [embedders |-> embs, loads |-> loads]
      ELSE IF inst.model \in pipelineCache
      THEN [embedders |->
              [embs EXCEPT ![e].embedder = inst.model,
                           ![e].loading = [state |-> "resolved", load |-> 0]],
            loads |-> loads]
      ELSE [embedders |->
              [embs EXCEPT ![e].loading =
                             [state |-> "pending", load |-> Len(loads) + 1]],
            loads |-> Append(loads, [by |-> e, model |-> inst.model,
                                     state |-> "inflight"])]

\* new Embedder(model)
NewInstance(model) == [model |-> model, embedder |-> "", loading |-> NoPromise]

NewEmbedder(e, model) ==
  /\ e \notin DOMAIN embedders
  /\ embedders' = embedders @@ (e :> NewInstance(model))
  /\ UNCHANGED <<pipelineCache, embedder, loads, calls>>
  /\ UNCHANGED <<disk, collections, chunks, fts, uuidCtr, last, ingest, obs>>

\* a call that awaits: `late` tells that the instance's load had already
\* failed when the call was made
Awaiting(kind, e, text, body) ==
  [kind |-> kind, on |-> e, text |-> text, body |-> body,
   late |-> e \in DOMAIN embedders /\ embedders[e].loading.state = "rejected"]

\* embedder.init()
CallInit(c, e) ==
  /\ c \notin DOMAIN calls
  /\ e \in DOMAIN embedders
  /\ \E a \in { init(embedders, e) } :
       /\ embedders' = a.embedders
       /\ loads' = a.loads
  /\ calls' = calls @@ (c :> Awaiting("init", e, "", << >>))
  /\ UNCHANGED <<pipelineCache, embedder>>
  /\ UNCHANGED <<disk, collections, chunks, fts, uuidCtr, last, ingest, obs>>

\* embedder.embed(text) up to "await this.init()"
CallEmbed(c, e, text) ==
  /\ c \notin DOMAIN calls
  /\ e \in DOMAIN embedders
  /\ \E a \in { init(embedders, e) } :
       /\ embedders' = a.embedders
       /\ loads' = a.loads
  /\ calls' = calls @@ (c :> Awaiting("embed", e, text, << >>))
  /\ UNCHANGED <<pipelineCache, embedder>>
  /\ UNCHANGED <<disk, collections, chunks, fts, uuidCtr, last, ingest, obs>>

\* POST /search with a text and no embedding, up to its first await: the
\* server's getEmbedder(model) makes the Embedder when none is set, and the
\* request awaits init() (through getEmbedder or through embed)
HttpPostSearchText(c, body) ==
  LET made == IF embedder = ""
              THEN embedders @@
                   (ServerEmbedderId :>
                      NewInstance(IF body.model = "" THEN "minilm"
                                  ELSE body.model))
              ELSE embedders
      e == IF embedder = "" THEN ServerEmbedderId ELSE embedder
  IN  /\ c \notin DOMAIN calls
      /\ \E a \in { init(made, e) } :
           /\ embedders' = a.embedders
           /\ loads' = a.loads
      /\ embedder' = e
      /\ calls' = calls @@ (c :> Awaiting("POST /search", e, body.query, <<body>>))
      /\ UNCHANGED pipelineCache
      /\ UNCHANGED <<disk, collections, chunks, fts, uuidCtr, last, ingest, obs>>

\* pipeline() of load n resolves: getEmbedder caches the pipeline and the
\* instance that awaited it sets this.embedder
PipelineLoaded(n) ==
  /\ loads[n].state = "inflight"
  /\ loads' = [loads EXCEPT ![n].state = "done"]
  /\ pipelineCache' = pipelineCache \cup {loads[n].model}
  /\ embedders' = [embedders EXCEPT ![loads[n].by].embedder = loads[n].model,
                                    ![loads[n].by].loading.state = "resolved"]
  /\ UNCHANGED <<embedder, calls>>
  /\ UNCHANGED <<disk, collections, chunks, fts, uuidCtr, last, ingest, obs>>

\* pipeline() of load n rejects: nothing is cached, this.embedder stays
\* unset and this.loading is the rejected promise
PipelineFailed(n) ==
  /\ loads[n].state = "inflight"
  /\ loads' = [loads EXCEPT ![n].state = "failed"]
  /\ embedders' = [embedders EXCEPT ![loads[n].by].loading.state = "rejected"]
  /\ UNCHANGED <<pipelineCache, embedder, calls>>
  /\ UNCHANGED <<disk, collections, chunks, fts, uuidCtr, last, ingest, obs>>

\* the answer of POST /search once the query text is embedded
TextSearchAnswer(body, model) ==
  LET options == [collection |-> Field(body, "collection", ""),
                  limit |-> LimitOr10(body),
                  threshold |-> Zero,
                  hybridWeight |-> Field(body, "hybridWeight", DefaultHybridWeight)]
      queryEmbedding == Infer(model, body.query)
      out == IF ~RGe(options.hybridWeight, One)
             THEN hybridSearch(Cur, queryEmbedding, body.query, options)
             ELSE search(Cur, queryEmbedding, options)
  IN  [op |-> "POST /search", body |-> body, used |-> model,
       queryEmbedding |-> queryEmbedding, out |-> out,
       code |-> IF out.status = "ok" THEN 200 ELSE 500]

\* the promise a call awaits settles: init() returns, embed() runs the
\* pipeline on its text, the request searches with the embedded text; a
\* rejected promise rejects the call, and the request answers 500
Settle(c) ==
  LET call == calls[c]
      inst == embedders[call.on]
      ok == inst.loading.state = "resolved"
      error == LoadError(inst.loading.load)
  IN  /\ c \in DOMAIN calls
      /\ inst.loading.state \in {"resolved", "rejected"}
      /\ obs' = IF call.kind = "POST /search"
                THEN (IF ok THEN TextSearchAnswer(call.body[1], inst.embedder)
                      ELSE [op |-> "POST /search", body |-> call.body[1],
                            used |-> "", queryEmbedding |-> << >>,
                            out |-> [status |-> "rejected", error |-> error],
                            code |-> 500])
                ELSE [op |-> call.kind, on |-> call.on, late |-> call.late,
                      text |-> call.text,
                      out |-> IF ok
                              THEN [status |-> "ok",
                                    value |-> IF call.kind = "embed"
                                              THEN Infer(inst.embedder, call.text)
                                              ELSE << >>]
                              ELSE [status |-> "rejected", error |-> error]]
      /\ calls' = [k \in DOMAIN calls \ {c} |-> calls[k]]
      /\ UNCHANGED <<pipelineCache, embedders, embedder, loads>>
      /\ UNCHANGED <<disk, collections, chunks, fts, uuidCtr, last, ingest>>

(***************************************************************************)
(* Specifications                                                          *)
(***************************************************************************)
\* the chunk ids a request may name: those stored and one that is not
ChunkIdsNow == { r.id : r \in chunks } \cup {"zz"}

\* the contents the user may give each file
ContentsOf(f) ==
  IF f = "f1" THEN Contents \ {BadMagicFile}
  ELSE {BadMagicFile, TooSmallFile, GoodFile(<< Rec("a", "t1", <<1>>) >>)}

\* the Indexer as a library (indexFile, indexDirectory, removeFile) over
\* one collection
Next ==
  \/ \E f \in Files : \E c \in ContentsOf(f) : WriteFile(f, c)
  \/ PostCollection("c1")
  \/ \E f \in Files : RemoveFile(f)
  \/ \E f \in Files, cid \in CollIdsNow : IndexFile(f, cid)
  \/ \E d \in Dirs, rec \in BOOLEAN : IndexDirectory(d, "c1", rec)

Spec == Init /\ [][Next]_vars

\* the operations the HTTP and MCP surfaces and the Indexer offer to change
\* the index
NextSurface ==
  \/ \E f \in Files : \E c \in ContentsOf(f) : WriteFile(f, c)
  \/ \E n \in CollNames : PostCollection(n)
  \/ \E n \in CollNames : DeleteCollection(n)
  \/ \E id \in ChunkIdsNow : HttpDeleteChunk(id)
  \/ \E f \in Files : HttpDeleteFile(f)
  \/ \E f \in Files : RemoveFile(f)
  \/ \E d \in Dirs, n \in CollNames, rec \in BOOLEAN : IndexDirectory(d, n, rec)

SpecSurface == Init /\ [][NextSurface]_vars

\* the store API: collections and chunks created and deleted by its callers
NextStore ==
  \/ \E n \in CollNames : DbCreateCollection(n)
  \/ \E n \in CollNames : DeleteCollection(n)
  \/ \E c \in ApiChunks : DbInsertChunk(c)
  \/ \E batch \in ApiBatches : DbInsertChunks(batch)
  \/ \E id \in ChunkIdsNow : DbDeleteChunk(id)
  \/ \E f \in Files : DbDeleteChunksBySource(f)

SpecStore == Init /\ [][NextStore]_vars

\* the store API with the counts recomputed by its callers
NextStats ==
  \/ \E n \in CollNames : DbCreateCollection(n)
  \/ \E c \in ApiChunks : DbInsertChunk(c)
  \/ \E f \in Files : DbDeleteChunksBySource(f)
  \/ \E cid \in CollIdsNow : DbUpdateCollectionStats(cid)

SpecStats == Init /\ [][NextStats]_vars

\* a store that is filled and searched
NextSearch ==
  \/ \E n \in CollNames : obs = NoObs /\ PostCollection(n)
  \/ \E c \in SearchChunks : obs = NoObs /\ DbInsertChunk(c)
  \/ \E q \in QueryEmbeddings, o \in SearchOptions :
       o.hybridWeight = One /\ Search(q, o)
  \/ \E q \in QueryEmbeddings, t \in QueryTexts, o \in SearchOptions :
       HybridSearch(q, t, o)
  \/ \E h \in HitLists : NormalizeScores(h)
  \/ \E body \in PostBodies : HttpPostSearch(body)
  \/ \E args \in ToolArgs : McpRecallSearch(args)
  \/ \E n \in CollNames : HttpGetFiles(n)
  \/ TakeResponse

SpecSearch == Init /\ [][NextSearch]_vars

\* a re-ingestion with a reader on another connection
NextConc ==
  \/ \E f \in Files : \E c \in ContentsOf(f) :
       ingest.pc = "idle" /\ WriteFile(f, c)
  \/ ingest.pc = "idle" /\ PostCollection("c1")
  \/ \E f \in Files, cid \in { c.id : c \in collections } :
       IndexFileBegin(f, cid)
  \/ IndexFileInsert
  \/ \E f \in Files : Read(f)

SpecConc == Init /\ [][NextConc]_vars

\* the files given to the parser: too short, without the magic, with a
\* section offset past the end, with chunk_count = 0, whole with two
\* chunks, whole with a chunk without id, ending after the first of two
\* declared records, ending inside the data of the second, of the only
\* record, and ending before the only record
ParseContents ==
  { TooSmallFile, BadMagicFile, BadOffsetFile,
    StreamFile(0, << >>),
    GoodFile(<< Rec("a", "t1", <<1>>), Rec("b", "t2", <<1>>) >>),
    GoodFile(<< Rec("", "t1", <<1>>) >>),
    StreamFile(2, << Rec("a", "t1", <<1>>) >>),
    StreamFile(2, << Rec("a", "t1", <<1>>), CutRec("b", "t2", <<1>>) >>),
    StreamFile(1, << CutRec("a", "t1", <<1>>) >>),
    StreamFile(1, << >>) }

\* the parser and the Indexer over the files of ParseContents
NextParse ==
  \/ \E c \in ParseContents : WriteFile("f1", c)
  \/ \E f \in Files : ParseFile(f)
  \/ PostCollection("c1")
  \/ \E f \in Files, cid \in CollIdsNow : IndexFile(f, cid)

SpecParse == Init /\ [][NextParse]_vars

\* the arguments of the hybrid queries that run beside a writer
ConcOptions ==
  [collection : {"", "c1"}, limit : {1, 3}, threshold : {Zero},
   hybridWeight : {Zero, R(1, 2)}]

\* a hybrid query of the server process beside the store calls of another
\* process on the same database file
NextHybridConc ==
  \/ \E n \in CollNames : obs = NoObs /\ PostCollection(n)
  \/ \E c \in SearchChunks : WriterMayCommit /\ DbInsertChunk(c)
  \/ \E r \in chunks : WriterMayCommit /\ DbDeleteChunk(r.id)
  \/ \E t \in QueryTexts, o \in ConcOptions : HybridLoad(<<1, 0>>, t, o)
  \/ HybridFinish
  \/ "op" \in DOMAIN obs /\ obs.op = "hybridSearch:done" /\ TakeResponse

SpecHybridConc == Init /\ [][NextHybridConc]_vars

\* the bodies of the text searches
TextBodies == [query : {"x"}, model : {""} \cup Models]

\* one process: callers of the Embedder class, the server's text searches
\* and the model loads they wait for
NextEmbed ==
  \/ \E e \in EmbedderIds, m \in Models : NewEmbedder(e, m)
  \/ \E c \in CallIds, e \in EmbedderIds : CallInit(c, e)
  \/ \E c \in CallIds, e \in EmbedderIds : CallEmbed(c, e, "x")
  \/ \E c \in CallIds, body \in TextBodies : HttpPostSearchText(c, body)
  \/ \E n \in DOMAIN loads : PipelineLoaded(n)
  \/ \E n \in DOMAIN loads : PipelineFailed(n)
  \/ \E c \in CallIds : Settle(c)

SpecEmbed == Init /\ [][NextEmbed]_vars

(***************************************************************************)
(* Properties                                                              *)
(***************************************************************************)
\* what identifies a stored chunk to a caller: every column but the rowid,
\* the embedding by its length
RowKey(r) ==
  [id |-> r.id, collection_id |-> r.collection_id,
   source_file |-> r.source_file, chunk_index |-> r.chunk_index,
   text |-> r.text, dim |-> Len(r.embedding)]

\* the chunk rows a file parsed as `parsed` should leave for filePath in
\* collection cid: its embedded chunks, numbered from 0 in file order
RECURSIVE ExpectedKeys(_, _, _, _)
ExpectedKeys(recs, filePath, cid, idx) ==
  IF recs = << >> THEN {}
  ELSE IF Len(Head(recs).embedding) = 0
       THEN ExpectedKeys(Tail(recs), filePath, cid, idx)
       ELSE {[id |-> Head(recs).id, collection_id |-> cid,
              source_file |-> filePath, chunk_index |-> idx,
              text |-> Head(recs).text, dim |-> Len(Head(recs).embedding)]}
            \cup ExpectedKeys(Tail(recs), filePath, cid, idx + 1)

\* the rows of file f are exactly the embedded chunks of `parsed`
HoldsFile(ch, f, cid, parsed) ==
  /\ { RowKey(r) : r \in getChunksBySourceFile(ch, f) }
       = ExpectedKeys(parsed, f, cid, 0)
  /\ Cardinality(getChunksBySourceFile(ch, f))
       = Cardinality(ExpectedKeys(parsed, f, cid, 0))

\* C1: a call indexFile(f, c) on a store in which f already has chunks ends
\* with exactly the new chunk set of f (it succeeded) or exactly the prior
\* chunk set of f (it failed); never with the prior chunks gone and nothing
\* in their place.
C1_ReingestAtomic ==
  [][\A f \in Files, cid \in { c.id : c \in collections } :
       (IndexFile(f, cid) /\ getChunksBySourceFile(chunks, f) # {}) =>
         LET aifbin == parseAifBinFile(disk[f], uuidCtr)
         IN  \/ /\ last'.status = "ok"
                /\ HoldsFile(chunks', f, cid, aifbin.chunks)
             \/ getChunksBySourceFile(chunks', f)
                  = getChunksBySourceFile(chunks, f)]_vars

\* C2: after any sequence of operations of the surfaces, every collection
\* row's chunk_count is the number of chunk rows with its id and its
\* file_count the number of distinct source files among them.
C2_StatsInSync ==
  \A c \in collections :
    LET rows == getChunksByCollection(chunks, c.id)
    IN  /\ c.chunk_count = Cardinality(rows)
        /\ c.file_count = Cardinality({ r.source_file : r \in rows })

\* C3: all chunks that share a collection_id have embeddings of the same
\* non-zero length.
C3_OneDimPerCollection ==
  \A r \in chunks :
    /\ Len(r.embedding) > 0
    /\ \A q \in chunks :
         q.collection_id = r.collection_id => Len(q.embedding) = Len(r.embedding)

\* what two store states must agree on to be the same state for a caller:
\* the chunk rows by id, collection_id, source_file, chunk_index, text and
\* embedding, and the collection rows with their counts
Content(st) ==
  [chunks |-> { [id |-> r.id, collection_id |-> r.collection_id,
                 source_file |-> r.source_file, chunk_index |-> r.chunk_index,
                 text |-> r.text, embedding |-> r.embedding] : r \in st.chunks },
   collections |-> st.collections]

\* C4: ingestion is idempotent on source_file: after one call of indexFile
\* or indexDirectory, a second call on the same unchanged file leaves the
\* store in the same state.
C4_Idempotent ==
  [][/\ \A f \in Files, cid \in { c.id : c \in collections } :
          IndexFile(f, cid) =>
            Content(indexFile(Cur', uuidCtr', f, disk[f], cid).st)
              = Content(Cur')
     /\ \A d \in Dirs, rec \in BOOLEAN :
          IndexDirectory(d, "c1", rec) =>
            Content(indexDirectory(Cur', uuidCtr', disk, d, "c1", rec).st)
              = Content(Cur')]_vars

\* C5: after indexFile(f, c) returns a count > 0, the stored chunks with
\* source_file = f are exactly the embedded chunks of the file as just
\* parsed, as many as the count returned, none of them from an earlier
\* ingestion of f; a search loads exactly these as the candidates of f.
C5_CompletedIngestion ==
  [][\A f \in Files, cid \in CollIdsNow :
       (IndexFile(f, cid) /\ last'.status = "ok" /\ last'.chunks > 0) =>
         LET aifbin == parseAifBinFile(disk[f], uuidCtr)
             cands == { c \in getAllChunksWithEmbeddings(chunks', "") :
                          c.sourceFile = f }
         IN  /\ HoldsFile(chunks', f, cid, aifbin.chunks)
             /\ Cardinality(getChunksBySourceFile(chunks', f)) = last'.chunks
             /\ { c.id : c \in cands }
                  = { k.id : k \in ExpectedKeys(aifbin.chunks, f, cid, 0) }
             /\ Cardinality(cands) = last'.chunks]_vars

\* a re-ingestion that replaced the chunks of a file by others
C5_Witness ==
  /\ last.op = "indexFile" /\ last.status = "ok" /\ last.chunks = 2
  /\ \E r \in chunks : r.source_file = "f1" /\ r.id = "b"
  /\ uuidCtr >= 2

\* the rows a pending batch of indexFile will be, as RowKey gives them
PendingKeys(mcs) ==
  { [id |-> mcs[i].id, collection_id |-> mcs[i].collectionId,
     source_file |-> mcs[i].sourceFile, chunk_index |-> mcs[i].chunkIndex,
     text |-> mcs[i].text, dim |-> Len(mcs[i].embedding)] : i \in 1..Len(mcs) }

\* C6: a query of another connection that runs while file f, which had
\* chunks, is being re-ingested sees all of f's prior chunks or all of its
\* new chunks, never f without the prior chunks and without the new ones.
C6_NoIntermediateRead ==
  (obs.during /\ obs.prior # {}) =>
     \/ obs.rows = obs.prior
     \/ { RowKey(r) : r \in obs.rows } = PendingKeys(obs.pending)

\* C7: deleteCollection(name) of an existing collection removes with the
\* collection row every chunk row of that collection and their keyword-index
\* entries and returns true; of an unknown name it returns false and changes
\* nothing; and no chunk row ever references a collection id that is not in
\* collections.
C7_DeleteCollectionCascade ==
  /\ [](\A r \in chunks : getCollectionById(collections, r.collection_id) # {})
  /\ [][\A n \in CollNames :
          DeleteCollection(n) =>
            LET gone == getCollection(collections, n)
                ids == { c.id : c \in gone }
                rows == { r \in chunks : r.collection_id \in ids }
            IN  IF gone # {}
                THEN /\ last'.status = "200"
                     /\ collections' = collections \ gone
                     /\ chunks' = chunks \ rows
                     /\ \A r \in rows : CopiesIn(FtsEntry(r), fts') = 0
                     /\ \A r \in chunks' :
                          CopiesIn(FtsEntry(r), fts')
                            = CopiesIn(FtsEntry(r), fts)
                ELSE /\ last'.status = "404"
                     /\ Cur' = Cur]_vars

\* a collection was deleted and took chunk rows with it, others remain
C7_Witness ==
  /\ last.op = "deleteCollection" /\ last.status = "200" /\ last.chunks >= 1
  /\ chunks # {}

\* C8: after every store operation the keyword index holds exactly one entry
\* for each chunk row and no entry for a row that does not exist.
C8_FtsInSync ==
  /\ \A r \in chunks : CopiesIn(FtsEntry(r), fts) = 1
  /\ \A e \in BagToSet(fts) : \E r \in chunks : FtsEntry(r) = e

\* a batch insert aborted after it had inserted a row, other rows stored
C8_Witness ==
  /\ last.op = "insertChunks" /\ last.status = "error" /\ last.chunks >= 1
  /\ chunks # {}

\* the i-th row of a batch cannot be inserted into store st after the rows
\* before it: a NULL in a NOT NULL column, an unknown collection, an id that
\* a stored row or an earlier row of the batch has
RowFails(st, batch, i) ==
  \/ batch[i].text = Null
  \/ batch[i].sourceFile = Null
  \/ batch[i].collectionId = Null
  \/ batch[i].collectionId \notin { c.id : c \in st.collections }
  \/ batch[i].id \in { r.id : r \in st.chunks }
  \/ \E j \in 1..(i - 1) : batch[j].id = batch[i].id

\* the stored row of a chunk of a batch, whatever its rowid
HasRow(ch, chunk) ==
  \E r \in ch :
    /\ r.id = chunk.id /\ r.collection_id = chunk.collectionId
    /\ r.source_file = chunk.sourceFile /\ r.chunk_index = chunk.chunkIndex
    /\ r.text = chunk.text /\ r.embedding = EmbeddingBuffer(chunk.embedding)

\* C9: insertChunks(batch) is all-or-nothing: when a row of the batch fails
\* the call throws and the chunks table and the keyword index are as before
\* it; when none fails every row of the batch is present.
C9_BatchAllOrNothing ==
  [][\A batch \in ApiBatches :
       (last'.op = "insertChunks" /\ DbInsertChunks(batch)) =>
         IF \E i \in 1..Len(batch) : RowFails(Cur, batch, i)
         THEN /\ last'.status = "error"
              /\ chunks' = chunks /\ fts' = fts /\ collections' = collections
              /\ \A i \in 1..Len(batch) :
                   HasRow(chunks', batch[i]) => HasRow(chunks, batch[i])
         ELSE /\ last'.status = "ok"
              /\ \A i \in 1..Len(batch) : HasRow(chunks', batch[i])
              /\ Cardinality(chunks') = Cardinality(chunks) + Len(batch)
              /\ \A r \in chunks : r \in chunks']_vars

\* a batch whose second row failed after its first row had been inserted
C9_Witness ==
  /\ last.op = "insertChunks" /\ last.status = "error" /\ last.chunks = 1

\* C10: indexDirectory isolates per-file failures: every file found is
\* processed whatever happened to the files before it, a file that fails to
\* parse is logged and keeps its rows, the rows of the files that were not
\* ingested (not found, skipped, failed to parse) are as before, each
\* ingested file has exactly its parsed chunks, the call returns, with
\* files = the number of files that contributed a chunk and chunks = the sum
\* of their counts.
C10_FailureIsolation ==
  [][\A d \in Dirs, rec \in BOOLEAN :
       IndexDirectory(d, "c1", rec) =>
         LET r == indexDirectory(Cur, uuidCtr, disk, d, "c1", rec)
             files == findAifBinFiles(d, rec)
             entryOf(f) == CHOOSE e \in Range(r.log) : e.file = f
             found == Range(files)
             indexed == { f \in found : entryOf(f).outcome = "Indexed" }
             stored == { f \in found : entryOf(f).err = "store" }
         IN  /\ last'.status = "ok"
             /\ Len(r.log) = Len(files)
             /\ \A i \in 1..Len(files) : r.log[i].file = files[i]
             /\ \A f \in found :
                  /\ disk[f].kind # "ok" <=>
                       (entryOf(f).outcome = "Failed" /\ entryOf(f).err = "parse")
                  /\ (disk[f].kind = "ok"
                      /\ \E i \in 1..Len(disk[f].chunks) :
                           Len(disk[f].chunks[i].embedding) > 0)
                       => (f \in indexed \/ f \in stored)
             /\ \A f \in Files \ (indexed \cup stored) :
                  getChunksBySourceFile(chunks', f)
                    = getChunksBySourceFile(chunks, f)
             /\ \A f \in indexed :
                  /\ entryOf(f).count > 0
                  /\ Cardinality(getChunksBySourceFile(chunks', f))
                       = entryOf(f).count
                  /\ \A q \in getChunksBySourceFile(chunks', f) :
                       q.collection_id = r.coll
             /\ last'.files = Cardinality(indexed)
             /\ last'.chunks
                  = Cardinality({ q \in chunks' : q.source_file \in indexed })
             /\ last'.failed
                  = Cardinality({ f \in found : entryOf(f).outcome = "Failed" })
     ]_vars

\* a directory with one bad-magic file and one good file of two chunks was
\* indexed: files = 1, chunks = 2
C10_Witness ==
  /\ last.op = "indexDirectory" /\ last.status = "ok"
  /\ last.failed = 1 /\ last.files = 1 /\ last.chunks = 2
  /\ disk["f2"].kind = "badMagic"

\* C11: a call updateCollectionStats(id) leaves the collection row with that
\* id with chunk_count = the number of chunk rows of the collection and
\* file_count = the number of distinct source files among them, and changes
\* no other collection row and no chunk row.
C11_StatsRecomputed ==
  [][\A cid \in CollIdsNow :
       (last'.op = "updateCollectionStats" /\ DbUpdateCollectionStats(cid)) =>
         LET rows == { r \in chunks : r.collection_id = cid }
         IN  /\ chunks' = chunks /\ fts' = fts
             /\ { c.id : c \in collections' } = { c.id : c \in collections }
             /\ Cardinality(collections') = Cardinality(collections)
             /\ \A c \in collections' :
                  IF c.id = cid
                  THEN /\ c.chunk_count = Cardinality(rows)
                       /\ c.file_count
                            = Cardinality({ r.source_file : r \in rows })
                       /\ \E old \in collections :
                            old.id = cid /\ old.name = c.name
                  ELSE c \in collections]_vars

\* the counts of one collection were brought up to date while another
\* collection's counts stayed stale
C11_Witness ==
  /\ last.op = "updateCollectionStats"
  /\ \E c \in collections :
       /\ c.chunk_count >= 1
       /\ c.chunk_count = Cardinality(getChunksByCollection(chunks, c.id))
  /\ \E c \in collections :
       /\ c.chunk_count = 0
       /\ getChunksByCollection(chunks, c.id) # {}

\* C12: in every store state reached through the Indexer, no two chunk rows
\* have the same id and no two have the same (collection_id, source_file,
\* chunk_index).
C12_UniqueChunkKeys ==
  \A r, q \in chunks :
    r # q =>
      /\ r.id # q.id
      /\ <<r.collection_id, r.source_file, r.chunk_index>>
           # <<q.collection_id, q.source_file, q.chunk_index>>

\* a file of two chunks was ingested after an earlier ingestion of it
C12_Witness ==
  /\ last.op \in {"indexFile", "indexDirectory"}
  /\ \E r, q \in chunks :
       /\ r.source_file = q.source_file /\ r.collection_id = q.collection_id
       /\ r.chunk_index = 0 /\ q.chunk_index = 1
  /\ uuidCtr >= 2


(***************************************************************************)
(* Properties of the search engine, stated on the answer a search has      *)
(* left in obs; the store does not change while an answer is outstanding.  *)
(***************************************************************************)
Answered(op) == "op" \in DOMAIN obs /\ obs.op = op

\* the chunk rows a search over collection name may look at
Scope(name) ==
  IF name = "" THEN chunks
  ELSE { r \in chunks : \E c \in collections :
                          c.name = name /\ c.id = r.collection_id }

\* the cosine of the stored chunk id against the query vector
V(id, query) ==
  LET r == CHOOSE q \in chunks : q.id = id
  IN  cosineSimilarity(rowToChunk(r).embedding, query).v

\* the normalized BM25 scores of the keyword hits of a hybrid search
K(text, options) ==
  normalizeBM25Scores(
    keywordSearch(Cur, text, CollectionId(Cur, options.collection).id,
                  3 * options.limit))

KOrZero(id, text, options) ==
  IF id \in DOMAIN K(text, options) THEN K(text, options)[id] ELSE Zero

\* w * V[id] + (1 - w) * K[id]
Weighted(id, query, text, options) ==
  RAdd(RMul(options.hybridWeight, V(id, query)),
       RMul(RSub(One, options.hybridWeight), KOrZero(id, text, options)))

ResultIds(out) == { out.results[i].chunk.id : i \in 1..Len(out.results) }

\* C13: every result of hybridSearch carries vectorScore = V[id], the cosine
\* of its chunk against the query, keywordScore = K[id], the normalized BM25
\* score of the keyword hit (0 when the chunk is not a hit), and
\* score = w * V[id] + (1 - w) * K[id]; every candidate is scored so: a
\* candidate is left out only when its score is below the threshold or the
\* limit is reached
C13_HybridScore ==
  (Answered("hybridSearch") /\ obs.out.status = "ok") =>
    LET res == obs.out.results
        o == obs.options
    IN  /\ \A i \in 1..Len(res) :
             LET id == res[i].chunk.id
             IN  /\ id \in { r.id : r \in Scope(o.collection) }
                 /\ res[i].vectorScore = V(id, obs.query)
                 /\ res[i].keywordScore = KOrZero(id, obs.text, o)
                 /\ res[i].score = Weighted(id, obs.query, obs.text, o)
        /\ \A r \in Scope(o.collection) :
             \/ r.id \in ResultIds(obs.out)
             \/ ~RGe(Weighted(r.id, obs.query, obs.text, o), o.threshold)
             \/ Len(res) = o.limit

\* a hybrid search with w = 1/2 has returned a keyword hit and a chunk that
\* is not a hit, the second with keywordScore 0 and half its cosine as score
C13_Witness ==
  /\ Answered("hybridSearch") /\ obs.out.status = "ok"
  /\ obs.options.hybridWeight = R(1, 2)
  /\ \E i, j \in 1..Len(obs.out.results) :
       /\ obs.out.results[i].keywordScore = One
       /\ obs.out.results[i].vectorScore = R(3, 5)
       /\ obs.out.results[i].score = R(4, 5)
       /\ obs.out.results[j].chunk.id \notin DOMAIN K(obs.text, obs.options)
       /\ obs.out.results[j].keywordScore = Zero
       /\ obs.out.results[j].vectorScore = One
       /\ obs.out.results[j].score = R(1, 2)


\* C14: for a non-empty list of raw BM25 hits normalizeBM25Scores gives each
\* hit a score in [0, 1] equal to 1 - (raw - min) / range, range = max - min
\* (1 when max = min); the hit with the lowest raw score gets 1 and, when
\* max > min, the hit with the highest raw score gets 0; the empty list gives
\* the empty map
C14_NormalizedScores ==
  Answered("normalizeBM25Scores") =>
    LET hits == obs.scores
        raws == { hits[i].score : i \in 1..Len(hits) }
        lo == Min(raws)
        hi == Max(raws)
        range == IF hi = lo THEN 1 ELSE hi - lo
    IN  IF hits = << >>
        THEN DOMAIN obs.out = {}
        ELSE /\ DOMAIN obs.out = { hits[i].id : i \in 1..Len(hits) }
             /\ \A i \in 1..Len(hits) :
                  LET n == obs.out[hits[i].id]
                  IN  /\ RGe(n, Zero) /\ RGe(One, n)
                      /\ n = R(range - (hits[i].score - lo), range)
                      /\ hits[i].score = lo => n = One
                      /\ (hi > lo /\ hits[i].score = hi) => n = Zero
             /\ \E id \in DOMAIN obs.out : obs.out[id] = One

\* three hits of different raw scores have been normalized to 1, 0 and a
\* score strictly between
C14_Witness ==
  /\ Answered("normalizeBM25Scores")
  /\ Len(obs.scores) = 3
  /\ Cardinality({ obs.scores[i].score : i \in 1..3 }) = 3
  /\ { obs.out[id] : id \in DOMAIN obs.out } = { Zero, R(1, 2), One }

\* the empty hit list has been normalized to the empty map
C14_WitnessEmpty ==
  Answered("normalizeBM25Scores") /\ obs.scores = << >> /\ DOMAIN obs.out = {}


\* C15: on the same store, query vector, collection, limit and threshold,
\* hybridSearch with hybridWeight = 1 ends as search does (the same error,
\* or the same chunks in the same order) with score = vectorScore in every
\* result; with hybridWeight = 0 every result that is a keyword hit has its
\* normalized keyword score as score, and every other result has score 0
C15_WeightEndpoints ==
  Answered("hybridSearch") =>
    LET res == obs.out.results
        o == obs.options
        pure == search(Cur, obs.query, o)
    IN  /\ o.hybridWeight = One =>
             /\ obs.out.status = pure.status
             /\ obs.out.err = pure.err
             /\ Len(res) = Len(pure.results)
             /\ \A i \in 1..Len(res) :
                  /\ res[i].chunk = pure.results[i].chunk
                  /\ res[i].score = pure.results[i].score
                  /\ res[i].score = res[i].vectorScore
        /\ o.hybridWeight = Zero =>
             \A i \in 1..Len(res) :
               IF res[i].chunk.id \in DOMAIN K(obs.text, o)
               THEN res[i].score = K(obs.text, o)[res[i].chunk.id]
               ELSE res[i].score = Zero

\* a hybrid search with weight 1 has returned two chunks, one of them the
\* best keyword hit, scored by its cosine alone
C15_Witness ==
  /\ Answered("hybridSearch") /\ obs.out.status = "ok"
  /\ obs.options.hybridWeight = One
  /\ Len(obs.out.results) >= 2
  /\ \E i \in 1..Len(obs.out.results) :
       /\ obs.out.results[i].keywordScore = One
       /\ obs.out.results[i].score = R(3, 5)

\* a hybrid search with weight 0 has returned the best keyword hit with
\* score 1 and a chunk that is no hit, of cosine 1, with score 0
C15_WitnessKeyword ==
  /\ Answered("hybridSearch") /\ obs.out.status = "ok"
  /\ obs.options.hybridWeight = Zero
  /\ \E i, j \in 1..Len(obs.out.results) :
       /\ obs.out.results[i].score = One
       /\ obs.out.results[i].vectorScore # One
       /\ obs.out.results[j].chunk.id \notin DOMAIN K(obs.text, obs.options)
       /\ obs.out.results[j].vectorScore = One
       /\ obs.out.results[j].score = Zero


\* the score the answered search gives the chunk id
CandidateScore(id) ==
  IF obs.op = "search" THEN V(id, obs.query)
  ELSE Weighted(id, obs.query, obs.text, obs.options)

\* the candidates of the answered search that pass its threshold
Passing ==
  { r \in Scope(obs.options.collection) :
      RGe(CandidateScore(r.id), obs.options.threshold) }

\* C16: the list search or hybridSearch returns is the top limit of the
\* candidates that pass the threshold: at most limit entries (all the
\* passing candidates when they are fewer), every score >= threshold, scores
\* in non-increasing order, every chunk of the requested collection, and
\* every passing candidate that is not returned scored no higher than any
\* returned entry
C16_TopLimit ==
  ((Answered("search") \/ Answered("hybridSearch")) /\ obs.out.status = "ok") =>
    LET res == obs.out.results
        o == obs.options
    IN  /\ Len(res) <= o.limit
        /\ Len(res) = IF Cardinality(Passing) < o.limit
                      THEN Cardinality(Passing) ELSE o.limit
        /\ \A i \in 1..Len(res) :
             /\ RGe(res[i].score, o.threshold)
             /\ res[i].score = CandidateScore(res[i].chunk.id)
             /\ res[i].chunk.id \in { r.id : r \in Scope(o.collection) }
        /\ \A i, j \in 1..Len(res) : i < j => RGe(res[i].score, res[j].score)
        /\ \A i, j \in 1..Len(res) : i # j => res[i].chunk.id # res[j].chunk.id
        /\ \A r \in Passing :
             r.id \notin ResultIds(obs.out) =>
               \A i \in 1..Len(res) : RGe(res[i].score, CandidateScore(r.id))

\* a search with limit 1 has returned one entry out of several passing
\* candidates of different scores
C16_Witness ==
  /\ Answered("search") /\ obs.out.status = "ok"
  /\ obs.options.limit = 1
  /\ Len(obs.out.results) = 1
  /\ \E r \in Passing : ~RGe(CandidateScore(r.id), obs.out.results[1].score)

\* the same for a hybrid search, with a candidate below the threshold
C16_WitnessHybrid ==
  /\ Answered("hybridSearch") /\ obs.out.status = "ok"
  /\ obs.options.limit = 1
  /\ Len(obs.out.results) = 1
  /\ \E r \in Passing : ~RGe(CandidateScore(r.id), obs.out.results[1].score)
  /\ Scope(obs.options.collection) \ Passing # {}


\* the answered search names no collection or a collection that exists
Resolves ==
  obs.options.collection = ""
  \/ \E c \in collections : c.name = obs.options.collection

\* every chunk the answered search looks at has the query's dimension
DimsAgree ==
  \A r \in Scope(obs.options.collection) :
    Len(rowToChunk(r).embedding) = Len(obs.query)

\* C17: search and hybridSearch return the empty list without raising when
\* the searched collection exists and has no chunks, when the threshold is
\* above every candidate's score, and when limit = 0; in the last two cases
\* the call is one that scores its candidates: its collection resolves and
\* its query has the dimension of every chunk searched (the other calls end
\* in the errors of C19 and C20, whatever the limit)
C17_EmptyResults ==
  (Answered("search") \/ Answered("hybridSearch")) =>
    /\ (obs.options.collection # "" /\ Resolves
        /\ Scope(obs.options.collection) = {}) =>
         obs.out = Returned(<< >>)
    /\ (Resolves /\ DimsAgree /\ Passing = {}) => obs.out = Returned(<< >>)
    /\ (Resolves /\ DimsAgree /\ obs.options.limit = 0) =>
         obs.out = Returned(<< >>)

\* a search with limit 0 over chunks that pass its threshold has returned
\* the empty list
C17_Witness ==
  /\ Answered("search") \/ Answered("hybridSearch")
  /\ obs.options.limit = 0
  /\ Resolves /\ DimsAgree /\ Passing # {}
  /\ obs.out = Returned(<< >>)

\* a search of an existing collection without chunks, in a store that holds
\* chunks of another collection, has returned the empty list
C17_WitnessEmptyCollection ==
  /\ Answered("search") \/ Answered("hybridSearch")
  /\ obs.options.collection # "" /\ Resolves
  /\ Scope(obs.options.collection) = {} /\ chunks # {}
  /\ obs.options.limit > 0
  /\ obs.out = Returned(<< >>)

\* a search with a threshold above the score of each of its candidates has
\* returned the empty list
C17_WitnessThreshold ==
  /\ Answered("search") \/ Answered("hybridSearch")
  /\ Resolves /\ DimsAgree
  /\ Scope(obs.options.collection) # {} /\ Passing = {}
  /\ obs.options.limit > 0
  /\ obs.out = Returned(<< >>)


\* C18: a request with limit = 0, in the body of POST /search or in the
\* arguments of recall_search, that is answered without an error is answered
\* with an empty result list
C18_LimitZeroOnSurfaces ==
  ((Answered("POST /search") \/ Answered("recall_search"))
   /\ "limit" \in DOMAIN obs.body /\ obs.body.limit = 0
   /\ obs.out.status = "ok") =>
    obs.out.results = << >>


\* C19: search and hybridSearch called with a collection name that does not
\* exist fail with the error "Collection not found" and return no results,
\* in every state of the store, the fresh one included; the chunks of the
\* other collections are not searched instead
C19_UnknownCollection ==
  ((Answered("search") \/ Answered("hybridSearch")) /\ ~Resolves) =>
    /\ obs.out.status = "error"
    /\ obs.out.err = "Collection not found"
    /\ obs.out.results = << >>

\* a search naming a collection that does not exist, in a store whose chunks
\* match the query, has failed
C19_Witness ==
  /\ Answered("search") \/ Answered("hybridSearch")
  /\ ~Resolves
  /\ \E r \in chunks :
       /\ Len(rowToChunk(r).embedding) = Len(obs.query)
       /\ RGe(V(r.id, obs.query), obs.options.threshold)
  /\ obs.options.limit > 0
  /\ obs.out.err = "Collection not found"

\* a search naming a collection has failed in the fresh store
C19_WitnessFresh ==
  /\ Answered("search") \/ Answered("hybridSearch")
  /\ collections = {} /\ chunks = {}
  /\ obs.out.err = "Collection not found"

\* C20: when the length of the query vector differs from the embedding
\* length of a chunk in the searched scope, search and hybridSearch fail with
\* the error "Vector dimension mismatch"; no result list is returned, neither
\* one that skips the chunk nor one that scores it on a truncated vector
C20_DimMismatch ==
  ((Answered("search") \/ Answered("hybridSearch")) /\ Resolves
   /\ ~DimsAgree) =>
    /\ obs.out.status = "error"
    /\ obs.out.err = "Vector dimension mismatch"
    /\ obs.out.results = << >>

\* a search over chunks of two dimensions, one of them the query's, has
\* failed with the mismatch
C20_Witness ==
  /\ Answered("search") \/ Answered("hybridSearch")
  /\ Resolves /\ ~DimsAgree
  /\ \E r \in Scope(obs.options.collection) :
       Len(rowToChunk(r).embedding) = Len(obs.query)
  /\ obs.out.err = "Vector dimension mismatch"


\* C21: a hybrid query is evaluated against one committed state also when
\* another connection commits while it runs: its answer is the answer of
\* hybridSearch on the state its first read saw or on the state its second
\* read saw (no other state was committed in between)
C21_HybridSnapshot ==
  Answered("hybridSearch:done") =>
    \/ obs.out = hybridSearch(obs.first, obs.query, obs.text, obs.options)
    \/ obs.out = hybridSearch(obs.second, obs.query, obs.text, obs.options)


\* C22: two calls of parseAifBinFile on byte-identical input return equal
\* results, the id of every chunk included
C22_ParseDeterministic ==
  (Answered("parseAifBinFile") /\ obs.prev # << >>) =>
    (obs.prev[1].content = obs.content =>
       /\ obs.prev[1].out.ok = obs.out.ok
       /\ obs.prev[1].out.err = obs.out.err
       /\ obs.prev[1].out.chunks = obs.out.chunks)


\* the file ends before what its header and its records declare
Truncated(file) ==
  \/ file.kind = "badOffset"
  \/ /\ file.kind = "ok"
     /\ \/ ChunkCount(file) > Len(file.chunks)
        \/ \E i \in 1..Len(file.chunks) : "cut" \in DOMAIN file.chunks[i]

\* C23: parseAifBinFile returns a parse error and no result for a file
\* shorter than 64 bytes, for a file without the magic and for a truncated
\* file (a section offset or a declared chunk length past the end of the
\* file); a file that declares chunk_count = 0 parses with an empty chunk
\* list, and indexFile skips it without touching the store
C23_ParseErrors ==
  /\ [](Answered("parseAifBinFile") =>
          /\ obs.content.kind = "tooSmall" =>
               ~obs.out.ok /\ obs.out.err = "File too small"
          /\ obs.content.kind = "badMagic" =>
               ~obs.out.ok /\ obs.out.err = "bad magic bytes"
          /\ Truncated(obs.content) => ~obs.out.ok /\ obs.out.chunks = << >>
          /\ obs.content = StreamFile(0, << >>) =>
               obs.out.ok /\ obs.out.chunks = << >>)
  /\ [][\A f \in Files, cid \in CollIdsNow :
          (IndexFile(f, cid) /\ disk[f] = StreamFile(0, << >>)) =>
            /\ last'.status = "skipped"
            /\ UNCHANGED <<collections, chunks, fts>>]_vars


\* the position (from 1) of the first chunk record of a truncated file that
\* is not whole: the first record cut short, else the first record missing
FirstMalformed(file) ==
  Min({ k \in 1..Len(file.chunks) : "cut" \in DOMAIN file.chunks[k] }
      \cup { Len(file.chunks) + 1 })

\* C24: when chunk record i is malformed, parseAifBinFile stops decoding at
\* i and returns exactly the chunks before i, unchanged, and the caller can
\* tell the partial parse from a complete one (by an error, or by the
\* header's chunkCount being larger than the number of chunks returned)
C24_PartialParse ==
  (Answered("parseAifBinFile") /\ obs.content.kind = "ok"
   /\ Truncated(obs.content)) =>
    LET n == FirstMalformed(obs.content) - 1
    IN  /\ obs.out.ok
        /\ Len(obs.out.chunks) = n
        /\ \A k \in 1..n :
             /\ obs.out.chunks[k].text = obs.content.chunks[k].text
             /\ obs.out.chunks[k].embedding = obs.content.chunks[k].embedding
             /\ obs.content.chunks[k].id # "" =>
                  obs.out.chunks[k].id = obs.content.chunks[k].id
        /\ obs.out.err # "none" \/ obs.out.chunkCount # Len(obs.out.chunks)


\* what the round trip does preserve: after indexFile has ingested a file,
\* every chunk of the parsed file that has an embedding is stored under its
\* id, retrievable by getChunk(id), with the same text and with its
\* embedding as 32-bit floats: the same length, every component rounded to
\* the nearest 32-bit float, so unchanged when it is one
RoundTripAsFloat32 ==
  [][\A f \in Files, cid \in CollIdsNow :
       (IndexFile(f, cid) /\ last'.status = "ok") =>
         LET aifbin == parseAifBinFile(disk[f], uuidCtr)
         IN  \A k \in 1..Len(aifbin.chunks) :
               Len(aifbin.chunks[k].embedding) > 0 =>
                 /\ Cardinality(getChunk(chunks', aifbin.chunks[k].id)) = 1
                 /\ \A r \in getChunk(chunks', aifbin.chunks[k].id) :
                      /\ rowToChunk(r).text = aifbin.chunks[k].text
                      /\ Len(rowToChunk(r).embedding)
                           = Len(aifbin.chunks[k].embedding)
                      /\ \A i \in 1..Len(aifbin.chunks[k].embedding) :
                           rowToChunk(r).embedding[i]
                             = Float32(aifbin.chunks[k].embedding[i])]_vars

\* C25: after indexFile has ingested a file, the store holds for every
\* chunk of the parsed file a row, retrievable by getChunk(id), with exactly
\* the id, the text and the embedding (same length, same component values)
\* of the parsed chunk
C25_RoundTrip ==
  [][\A f \in Files, cid \in CollIdsNow :
       (IndexFile(f, cid) /\ last'.status = "ok") =>
         LET aifbin == parseAifBinFile(disk[f], uuidCtr)
         IN  \A k \in 1..Len(aifbin.chunks) :
               \E r \in getChunk(chunks', aifbin.chunks[k].id) :
                 /\ rowToChunk(r).text = aifbin.chunks[k].text
                 /\ rowToChunk(r).embedding = aifbin.chunks[k].embedding]_vars

\* a file with a component that is no 32-bit float has been ingested: its
\* chunk is stored with the component rounded, the other unchanged
RoundTripRounded ==
  /\ last.op = "indexFile" /\ last.status = "ok"
  /\ \E r \in getChunk(chunks, "b") :
       /\ disk[r.source_file].kind = "ok"
       /\ \E k \in 1..Len(disk[r.source_file].chunks) :
            /\ disk[r.source_file].chunks[k].id = "b"
            /\ disk[r.source_file].chunks[k].embedding = <<1, BigComponent>>
       /\ rowToChunk(r).embedding = <<1, BigComponent - 1>>
       /\ rowToChunk(r).text = "t2"


\* C26: the HTTP surface answers 404 for a collection that does not exist:
\* POST /search naming one does not answer 500 or a result list, and
\* GET /files?collection=X for such an X does not answer with the files of
\* other collections
C26_NotFoundKept ==
  /\ (Answered("POST /search") /\ "collection" \in DOMAIN obs.body
      /\ getCollection(collections, obs.body.collection) = {}) =>
       obs.code = 404
  /\ (Answered("GET /files")
      /\ getCollection(collections, obs.collection) = {}) =>
       obs.code = 404 /\ obs.files = {}


\* C27: whatever the interleaving of init() and embed() calls, on one
\* Embedder instance or on several made for the same model, the pipeline of
\* a model is loaded at most once in the process: no load of a model is
\* started while another is in flight or after one has succeeded
C27_LoadedOnce ==
  \A m \in Models :
    Cardinality({ n \in DOMAIN loads :
                    loads[n].model = m
                    /\ loads[n].state \in {"inflight", "done"} }) <= 1


\* C28: a POST /search with a text query embeds the text with the model its
\* body names, minilm when it names none, whatever model earlier requests
\* to the server named
C28_ModelOfRequest ==
  (Answered("POST /search") /\ "used" \in DOMAIN obs /\ obs.used # "") =>
    obs.used = (IF obs.body.model = "" THEN "minilm" ELSE obs.body.model)


\* C30: once the model load of an Embedder instance has failed, the
\* instance keeps its rejected loading promise and its unset embedder for
\* good, an init() or embed() call on it starts no load, and every such
\* call rejects with the error of the load that failed
C30_FailedLoadKept ==
  /\ [](\A e \in DOMAIN embedders :
          embedders[e].loading.state = "rejected" =>
            /\ embedders[e].embedder = ""
            /\ loads[embedders[e].loading.load].state = "failed"
            /\ loads[embedders[e].loading.load].by = e)
  /\ []((Answered("init") \/ Answered("embed")) /\ obs.late =>
          obs.out = [status |-> "rejected",
                     error |-> LoadError(embedders[obs.on].loading.load)])
  /\ [][\A e \in DOMAIN embedders :
          embedders[e].loading.state = "rejected" =>
            /\ embedders'[e] = embedders[e]
            /\ (\E c \in CallIds : CallInit(c, e) \/ CallEmbed(c, e, "x")) =>
                 loads' = loads]_vars

\* an embed() and an init() made after the load had failed have rejected
C30_Witness ==
  Answered("embed") /\ obs.late /\ obs.out.status = "rejected"
  /\ embedders[obs.on].loading.state = "rejected"

C30_WitnessInit ==
  Answered("init") /\ obs.late /\ obs.out.status = "rejected"


\* C29: an indexFile that does not ingest, because the parse raises or
\* because no parsed chunk has a non-empty embedding, leaves collections,
\* chunks and the keyword index as they were: the chunks ingested before
\* for that path stay stored
C29_NoIngestNoChange ==
  [][\A f \in Files :
       (/\ last'.op = "indexFile"
        /\ \E p \in { parseAifBinFile(disk[f], uuidCtr) } :
             ~p.ok \/ chunksWithEmbeddings(p.chunks) = << >>
        /\ \E cid \in CollIdsNow : IndexFile(f, cid)) =>
         UNCHANGED <<collections, chunks, fts>>]_vars

\* f1 was ingested, then replaced by a file without embedded chunks, and
\* an indexFile skipped it: its chunks are still stored
C29_Witness ==
  /\ last.op = "indexFile" /\ last.status = "skipped"
  /\ \E r \in chunks : r.source_file = "f1"
  /\ \E p \in { parseAifBinFile(disk["f1"], uuidCtr) } :
       p.ok /\ chunksWithEmbeddings(p.chunks) = << >>

\* f1 was ingested, then replaced by a file that does not parse, and an
\* indexFile threw: its chunks are still stored
C29_WitnessParseError ==
  /\ last.op = "indexFile" /\ last.status = "error"
  /\ \E r \in chunks : r.source_file = "f1"
  /\ ~parseAifBinFile(disk["f1"], uuidCtr).ok

====
